---------------------------- MODULE Spec2Model ----------------------------
(***************************************************************************)
(* The SCM (secure monitor call) client of the Qualcomm firmware driver:   *)
(* the command buffer, the buffered trap with its retry loop, the call     *)
(* orchestrator qcom_scm_call, the atomic call, the version query and the  *)
(* service wrappers, run by several kernel threads against one secure      *)
(* monitor.  Memory shared with the monitor is modelled with the data      *)
(* cache in between: the CPU reads and writes through the cache, the       *)
(* monitor reads and writes physical memory.                               *)
(***************************************************************************)
EXTENDS Integers, Sequences, FiniteSets, TLC

(* ------------------------------ bounds -------------------------------- *)

\* number of kernel threads calling into the driver
NThreads == 2

\* how many times the monitor may answer one trap loop with "interrupted"
MaxInterrupted == 1

\* saturation value of the per-call event counters
MaxCount == 2

\* the highest cpu number a cpu mask may hold
MaxCpu == 4

\* how many cpus a mask passed to the boot-address wrappers holds at most
MaxMask == 2

\* the greatest small payload size handed to the allocator
MaxPayload == 5

\* the greatest clock rate asked for, and the rate of the fastest parent
MaxRate == 4

(* ------------------------- program constants -------------------------- *)

QCOM_SCM_ENOMEM == -5
QCOM_SCM_EOPNOTSUPP == -4
QCOM_SCM_EINVAL_ADDR == -3
QCOM_SCM_EINVAL_ARG == -2
QCOM_SCM_ERROR == -1
QCOM_SCM_INTERRUPTED == 1

QCOM_SCM_FLAG_COLDBOOT_CPU0 == 0
QCOM_SCM_FLAG_COLDBOOT_CPU1 == 1
QCOM_SCM_FLAG_COLDBOOT_CPU2 == 8
QCOM_SCM_FLAG_COLDBOOT_CPU3 == 32

QCOM_SCM_FLAG_WARMBOOT_CPU0 == 4
QCOM_SCM_FLAG_WARMBOOT_CPU1 == 2
QCOM_SCM_FLAG_WARMBOOT_CPU2 == 16
QCOM_SCM_FLAG_WARMBOOT_CPU3 == 64

\* errno values of the kernel (include/uapi/asm-generic/errno*.h)
EIO == 5
ENOMEM == 12
EINVAL == 22
ERANGE == 34
EOPNOTSUPP == 95

\* PAGE_SIZE of the 32-bit ARM kernel
PAGE_SIZE == 4096

\* sizeof(struct qcom_scm_command): four __le32 before the flexible buf[]
SizeofCommand == 16
\* sizeof(struct qcom_scm_response): three __le32
SizeofResponse == 12

\* byte offsets of the header fields
OffCmdLen == 0
OffCmdBufOffset == 4
OffCmdRespHdrOffset == 8
OffCmdId == 12
OffRspLen == 0
OffRspBufOffset == 4
OffRspIsComplete == 8

\* DminLine field of the cache type register: the line holds 4 << DminLine bytes
CTR_DminLine == 3

NULL == 0

Threads == 1..NThreads

(* ------------------------- 32-bit arithmetic -------------------------- *)

\* A 32-bit value is held as the integer its bits denote in two's complement
\* (-2^31 .. 2^31-1): a u32 and the int it converts to are the same value
\* here, 0xffffffff is -1, and u32 arithmetic wraps as below.

TwoTo30 == 1073741824

\* x << 1 in 32 bits
Dbl32(x) ==
    IF x >= TwoTo30 THEN ((x - TwoTo30) * 2 - TwoTo30) - TwoTo30
    ELSE IF x < -TwoTo30 THEN ((x + TwoTo30) * 2 + TwoTo30) + TwoTo30
    ELSE x * 2

\* 2^n for n in 0..30
Pow2(n) ==
    LET p[i \in 0..30] == IF i = 0 THEN 1 ELSE 2 * p[i - 1]
    IN p[n]

\* a << n in 32 bits
Shl32(a, n) ==
    LET sh[x \in Int, i \in 0..31] == IF i = 0 THEN x ELSE sh[Dbl32(x), i - 1]
    IN sh[a, n]

\* a | b, bit by bit from the low end; x \div 2 is the arithmetic shift
BitOr(a, b) ==
    LET or[x \in Int, y \in Int] ==
          IF x = 0 THEN y
          ELSE IF y = 0 THEN x
          ELSE IF x = -1 \/ y = -1 THEN -1
          ELSE (IF (x % 2 = 1) \/ (y % 2 = 1) THEN 1 ELSE 0)
               + 2 * or[x \div 2, y \div 2]
    IN or[a, b]

\* a & b
BitAnd(a, b) ==
    LET and[x \in Int, y \in Int] ==
          IF x = 0 \/ y = 0 THEN 0
          ELSE IF x = -1 THEN y
          ELSE IF y = -1 THEN x
          ELSE (IF (x % 2 = 1) /\ (y % 2 = 1) THEN 1 ELSE 0)
               + 2 * and[x \div 2, y \div 2]
    IN and[a, b]

\* cpu_to_le32: the four bytes of a 32-bit value, least significant first
cpu_to_le32(x) ==
    << x % 256, (x \div 256) % 256, (x \div 65536) % 256, (x \div 16777216) % 256 >>

\* le32_to_cpu: the value of four little-endian bytes
le32_to_cpu(b) ==
    b[1] + 256 * b[2] + 65536 * b[3] + 16777216 * (IF b[4] >= 128 THEN b[4] - 256 ELSE b[4])


(* ------------------- kernel collaborators (not in src) ---------------- *)

\* start of the kernel's linear mapping (0xc0000000) and of physical RAM
PAGE_OFFSET == -1073741824
PHYS_OFFSET == 0

\* a PAGE_ALIGN that rounds down
PAGE_ALIGN_down(len) == (len \div PAGE_SIZE) * PAGE_SIZE

\* PAGE_ALIGN: round up to a multiple of the page size
PAGE_ALIGN(len) == ((len + PAGE_SIZE - 1) \div PAGE_SIZE) * PAGE_SIZE

\* virt_to_phys of an address of the linear mapping
virt_to_phys(v) == (v - PAGE_OFFSET) + PHYS_OFFSET

\* round_down / round_up to a power-of-two granule
round_down(x, g) == (x \div g) * g
round_up(x, g) == ((x + g - 1) \div g) * g

(* --------------------------- the heap ---------------------------------- *)

\* one page-sized slab object per slot; a thread holds at most one buffer
Slots == 1..NThreads

\* kernel virtual address of a slot's object
SlotAddr(s) == PAGE_OFFSET + s * PAGE_SIZE

\* the slot a kernel virtual address points into (0: none)
SlotOfVirt(v) ==
    IF v >= PAGE_OFFSET + PAGE_SIZE /\ (v - PAGE_OFFSET) \div PAGE_SIZE \in Slots
    THEN (v - PAGE_OFFSET) \div PAGE_SIZE ELSE 0

\* the slot a physical address points into (0: none)
SlotOfPhys(p) ==
    IF p >= PHYS_OFFSET + PAGE_SIZE /\ (p - PHYS_OFFSET) \div PAGE_SIZE \in Slots
    THEN (p - PHYS_OFFSET) \div PAGE_SIZE ELSE 0

\* bytes physical memory may hold where nothing was written back yet
Residue == {0, 170}

EmptyBytes == [o \in {} |-> 0]

\* a free slot
NoBuf == [owner |-> 0, size |-> 0, valid |-> {}, dirty |-> {},
          data |-> EmptyBytes, mem |-> EmptyBytes]

(* ------------------------- cache and memory --------------------------- *)

\* cacheline_size = 4 << ((ctr >> 16) & 0xf)
CacheLineSize == 4 * Pow2(CTR_DminLine)

LineOf(o) == o \div CacheLineSize

\* the cache lines covering [start, end) after rounding to the line size
LinesOf(start, end) ==
    { l \in 0..(PAGE_SIZE \div CacheLineSize) :
        /\ round_down(start, CacheLineSize) <= l * CacheLineSize
        /\ l * CacheLineSize < round_up(end, CacheLineSize) }

\* the byte the CPU sees at offset o of buffer b
CpuByte(b, o) ==
    IF o \in DOMAIN b.data
    THEN IF LineOf(o) \in b.valid THEN b.data[o] ELSE b.mem[o]
    ELSE 0

\* len bytes as the CPU sees them from offset off
CpuRead(b, off, len) == [i \in 1..len |-> CpuByte(b, off + i - 1)]

\* line fill: the lines become valid holding what memory holds
CacheFill(b, lines) ==
    [b EXCEPT !.valid = @ \cup lines,
              !.data = [o \in DOMAIN @ |->
                          IF LineOf(o) \in (lines \ b.valid) THEN b.mem[o] ELSE @[o]]]

\* the cache after the CPU has read [off, off+len)
CpuTouch(b, off, len) ==
    IF len = 0 THEN b ELSE CacheFill(b, { LineOf(o) : o \in off..(off + len - 1) })

\* the CPU stores bytes at off: write-allocate, the lines become dirty
CpuWrite(b, off, bytes) ==
    IF Len(bytes) = 0 THEN b
    ELSE LET f == CpuTouch(b, off, Len(bytes))
         IN [f EXCEPT !.dirty = @ \cup { LineOf(o) : o \in off..(off + Len(bytes) - 1) },
                      !.data = [o \in DOMAIN @ |->
                                  IF o >= off /\ o < off + Len(bytes)
                                     THEN bytes[o - off + 1] ELSE @[o]]]

\* the monitor reads physical memory
FwByte(b, o) == IF o \in DOMAIN b.mem THEN b.mem[o] ELSE 0
FwRead(b, off, len) == [i \in 1..len |-> FwByte(b, off + i - 1)]
FwReadLE32(b, off) == le32_to_cpu(FwRead(b, off, 4))

\* the monitor stores bytes to physical memory
FwWrite(b, off, bytes) ==
    [b EXCEPT !.mem = [o \in DOMAIN @ |->
                         IF o >= off /\ o < off + Len(bytes)
                            THEN bytes[o - off + 1] ELSE @[o]]]

\* secure_flush_area(virt, size): write the dirty lines of the range back
secure_flush_area(b, off, size) ==
    LET ls == LinesOf(off, off + size) \cap b.dirty
    IN [b EXCEPT !.dirty = @ \ ls,
                 !.mem = [o \in DOMAIN @ |->
                            IF LineOf(o) \in ls THEN b.data[o] ELSE @[o]]]

\* qcom_scm_inv_range(start, end): drop the lines of the rounded range
qcom_scm_inv_range(b, start, end) ==
    LET ls == LinesOf(start, end)
    IN [b EXCEPT !.valid = @ \ ls,
                 !.dirty = @ \ ls,
                 !.data = [o \in DOMAIN @ |-> IF LineOf(o) \in ls THEN 0 ELSE @[o]]]

CpuReadLE32(b, off) == le32_to_cpu(CpuRead(b, off, 4))

(* ----------------------- command buffer layout ------------------------ *)

\* a length that leaves the two headers out
CommandLenPayloads(cmd_size, resp_size) == cmd_size + resp_size

\* the length alloc_qcom_scm_command computes
CommandLen(cmd_size, resp_size) == SizeofCommand + SizeofResponse + cmd_size + resp_size

\* alloc_qcom_scm_command on a successful kzalloc, for thread t; residue is
\* what physical memory held before
alloc_qcom_scm_command(t, cmd_size, resp_size, residue) ==
    LET len == CommandLen(cmd_size, resp_size)
        z == [owner |-> t, size |-> PAGE_ALIGN(len),
              valid |-> { LineOf(o) : o \in 0..(len - 1) },
              dirty |-> { LineOf(o) : o \in 0..(len - 1) },
              data |-> [o \in 0..(len - 1) |-> 0],
              mem |-> [o \in 0..(len - 1) |-> residue]]
        offset == SizeofCommand
        b1 == CpuWrite(z, OffCmdLen, cpu_to_le32(len))
        b2 == CpuWrite(b1, OffCmdBufOffset, cpu_to_le32(offset))
    IN CpuWrite(b2, OffCmdRespHdrOffset, cpu_to_le32(offset + cmd_size))

\* qcom_scm_command_to_response: offset of the response header in the buffer
qcom_scm_command_to_response(b) == CpuReadLE32(b, OffCmdRespHdrOffset)

\* qcom_scm_get_command_buffer: offset of cmd->buf
qcom_scm_get_command_buffer == SizeofCommand

\* qcom_scm_get_response_buffer: offset of the response payload in the buffer
qcom_scm_get_response_buffer(b, rsp) == rsp + CpuReadLE32(b, rsp + OffRspBufOffset)

(* ------------------------------ state --------------------------------- *)

VARIABLES
    pc,             \* pc[t]: where thread t stands in the function it runs
    args,           \* args[t]: the arguments of the running qcom_scm_call
    cmd,            \* cmd[t]: the local pointer cmd of qcom_scm_call (NULL: none)
    rsp,            \* rsp[t]: the local rsp, as an offset into the buffer
    ret,            \* ret[t]: the local ret / the value returned
    resp_buf,       \* resp_buf[t]: the caller's response buffer
    r0, r1, r2,     \* the registers of the trap, per thread
    cnt,            \* cnt[t]: what the running call has done so far (counters)
    heap,           \* heap[s]: the command buffer living in slot s, or NoBuf
    qcom_scm_lock,  \* the mutex: 0 when free, else the thread holding it
    version,        \* the static u32 version of qcom_scm_get_version
    fw_version,     \* the version the secure monitor reports
    fw_pending,     \* physical addresses of commands accepted, response not yet written
    fw_intr,        \* fw_intr[t]: "interrupted" answers given to t's running trap loop
    ver_traps,      \* version traps issued so far, process-wide (saturating)
    ver_known,      \* a finished qcom_scm_get_version has returned this (or NoVersion)
    wr,             \* wr[t]: the service wrapper thread t runs, with its locals
    qcom_scm_wb,    \* the warm-boot registry: per cpu, its flag and last entry
    cpu_present,    \* the kernel's mask of present cpus
    md,             \* the struct clk_regmap_mux_div of the clock and its parents
    regmap,         \* the command and the configuration register of the clock
    clk_op          \* the clock operation that runs, and what the last one returned

vars == << pc, args, cmd, rsp, ret, resp_buf, r0, r1, r2, cnt, heap, qcom_scm_lock,
           version, fw_version, fw_pending, fw_intr, ver_traps, ver_known,
           wr, qcom_scm_wb, cpu_present, md, regmap, clk_op >>

\* the clock, which the firmware interface never touches
clock == << md, regmap, clk_op >>

\* what the transport itself never touches
outer == << wr, qcom_scm_wb, cpu_present, clock >>

\* everything that belongs to one thread's running function
locals == << args, cmd, rsp, ret, resp_buf, r0, r1, r2, cnt >>

NoArgs == [fn |-> "none", svc |-> 0, cmd |-> 0, has_cmd |-> FALSE, cmd_buf |-> << >>,
           cmd_len |-> 0, has_resp |-> FALSE, resp_len |-> 0]

NoCount == [alloc |-> 0, lock |-> 0, flush |-> 0, trap |-> 0, inv |-> 0,
            poll |-> 0, copy |-> 0, free |-> 0]

\* count one more event, saturating
Count(c, f) == [c EXCEPT ![f] = IF @ < MaxCount THEN @ + 1 ELSE @]

\* note that an event of a loop (a trap, an invalidation, a poll) has happened
Mark(c, f) == [c EXCEPT ![f] = 1]

NoVersion == -2
VersionUnset == -1

\* the byte a caller's response buffer holds before the call
RespFill == 85

\* no service wrapper is running
NoWrapper == [name |-> "none", x |-> << >>, kind |-> "none", stage |-> 0, calls |-> 0,
              ret |-> 0, idx |-> {}]

\* the initializer of qcom_scm_wb[]
qcom_scm_wb_init ==
    [c \in 0..3 |->
       [flag |-> CASE c = 0 -> QCOM_SCM_FLAG_WARMBOOT_CPU0
                   [] c = 1 -> QCOM_SCM_FLAG_WARMBOOT_CPU1
                   [] c = 2 -> QCOM_SCM_FLAG_WARMBOOT_CPU2
                   [] c = 3 -> QCOM_SCM_FLAG_WARMBOOT_CPU3,
        entry |-> NULL]]

\* memcpy(dst, src, Len(src)): the first bytes of dst replaced by src
memcpy(dst, src) ==
    [i \in 1..(IF Len(dst) > Len(src) THEN Len(dst) ELSE Len(src)) |->
       IF i <= Len(src) THEN src[i] ELSE dst[i]]

(* ----------------------- heap access by pointer ------------------------ *)

\* the buffer a kernel pointer points to
BufAt(v) == IF SlotOfVirt(v) = 0 THEN NoBuf ELSE heap[SlotOfVirt(v)]

\* the heap with the buffer at v replaced
HeapWith(v, b) == IF SlotOfVirt(v) = 0 THEN heap ELSE [heap EXCEPT ![SlotOfVirt(v)] = b]

\* the slot kzalloc hands out: the lowest free one
FreeSlot == CHOOSE s \in Slots : heap[s] = NoBuf /\ \A q \in Slots : heap[q] = NoBuf => s <= q

\* a kfree that leaves the object allocated
kfree_leaked(v) == heap

\* kfree
kfree(v) == HeapWith(v, NoBuf)

(* --------------------------- the mutex --------------------------------- *)

\* a lock that is taken without waiting for its holder
mutex_lock_unguarded(t) == qcom_scm_lock' = t

\* mutex_lock(&qcom_scm_lock) by thread t: taken only when free
mutex_lock(t) == qcom_scm_lock = 0 /\ qcom_scm_lock' = t

\* an unlock that leaves the mutex held
mutex_unlock_kept(t) == qcom_scm_lock' = qcom_scm_lock

\* mutex_unlock(&qcom_scm_lock)
mutex_unlock(t) == qcom_scm_lock' = 0

(* ------------------------- error translation -------------------------- *)

\* qcom_scm_remap_error (qcom_scm.h): the monitor's error codes as errno values
qcom_scm_remap_error(err) ==
    CASE err = QCOM_SCM_ERROR -> -EIO
      [] err = QCOM_SCM_EINVAL_ADDR -> -EINVAL
      [] err = QCOM_SCM_EINVAL_ARG -> -EINVAL
      [] err = QCOM_SCM_EOPNOTSUPP -> -EOPNOTSUPP
      [] err = QCOM_SCM_ENOMEM -> -ENOMEM
      [] OTHER -> -EINVAL

\* the monitor's code handed on as it came
qcom_scm_call_raw(r) == r

\* the value __qcom_scm_call returns once smc has returned r
qcom_scm_call_result(r) == IF r < 0 THEN qcom_scm_remap_error(r) ELSE r

(* ------------------------ the secure monitor --------------------------- *)

\* error codes the monitor may answer a buffered call with (-6: undocumented)
FwErrors == {-1, -2, -3, -4, -5, -6}

\* final answers of the monitor to a buffered trap
FwCallAnswers == {0, 2} \cup FwErrors

\* the answers of a monitor that knows one error only
FwFewAnswers == {0, QCOM_SCM_EINVAL_ADDR}

\* result words the monitor may put into a response payload
FwWords == {0, 1}

\* the result word of a monitor that always reports the same
FwOneWord == {1}

\* the n payload bytes of a response carrying word w
FwPayload(w, n) == [i \in 1..n |-> IF i <= 4 THEN cpu_to_le32(w)[i] ELSE 0]

\* the monitor writes the response of the command in buffer b: payload first,
\* header with the completion flag with it
FwRespond(b, w) ==
    LET len == FwReadLE32(b, OffCmdLen)
        hdr == FwReadLE32(b, OffCmdRespHdrOffset)
        n == IF len >= hdr + SizeofResponse THEN len - hdr - SizeofResponse ELSE 0
        b1 == FwWrite(b, hdr + SizeofResponse, FwPayload(w, n))
        b2 == FwWrite(b1, hdr + OffRspLen, cpu_to_le32(SizeofResponse + n))
        b3 == FwWrite(b2, hdr + OffRspBufOffset, cpu_to_le32(SizeofResponse))
    IN FwWrite(b3, hdr + OffRspIsComplete, cpu_to_le32(1))

\* the monitor completes a command it accepted earlier
FwComplete(p, words) ==
    /\ p \in fw_pending
    /\ fw_pending' = fw_pending \ {p}
    /\ \E w \in words :
         heap' = IF SlotOfPhys(p) = 0 \/ heap[SlotOfPhys(p)] = NoBuf THEN heap
                 ELSE [heap EXCEPT ![SlotOfPhys(p)] = FwRespond(@, w)]
    /\ UNCHANGED << pc, locals, qcom_scm_lock, version, fw_version, fw_intr,
                    ver_traps, ver_known, outer >>

\* the data cache fetches an invalid line of a live buffer on its own
Prefetch(s, l) ==
    /\ heap[s] # NoBuf
    /\ l \notin heap[s].valid
    /\ \E o \in DOMAIN heap[s].data : LineOf(o) = l
    /\ heap' = [heap EXCEPT ![s] = CacheFill(@, {l})]
    /\ UNCHANGED << pc, locals, qcom_scm_lock, version, fw_version, fw_pending,
                    fw_intr, ver_traps, ver_known, outer >>

(* --------------------------- qcom_scm_call ----------------------------- *)

\* the command id written into the header
CommandId(svc_id, cmd_id) == BitOr(Shl32(svc_id, 10), cmd_id)

\* lines 276-282: the new command buffer with id and request payload filled in
NewCommand(t, a, residue) ==
    LET b0 == alloc_qcom_scm_command(t, a.cmd_len, a.resp_len, residue)
        b1 == CpuWrite(b0, OffCmdId, cpu_to_le32(CommandId(a.svc, a.cmd)))
    IN IF a.has_cmd
       THEN CpuWrite(b1, qcom_scm_get_command_buffer, SubSeq(a.cmd_buf, 1, a.cmd_len))
       ELSE b1

\* qcom_scm_call up to the mutex: allocate and fill the command, or fail
Call_alloc(t) ==
    /\ pc[t] = "call"
    /\ \/ /\ ret' = [ret EXCEPT ![t] = -ENOMEM]
          /\ pc' = [pc EXCEPT ![t] = "ret"]
          /\ UNCHANGED << cmd, heap, cnt >>
       \/ \E residue \in Residue :
          /\ heap' = [heap EXCEPT ![FreeSlot] = NewCommand(t, args[t], residue)]
          /\ cmd' = [cmd EXCEPT ![t] = SlotAddr(FreeSlot)]
          /\ cnt' = [cnt EXCEPT ![t] = Count(@, "alloc")]
          /\ pc' = [pc EXCEPT ![t] = "lock"]
          /\ UNCHANGED ret
    /\ UNCHANGED << args, rsp, resp_buf, r0, r1, r2, qcom_scm_lock, version,
                    fw_version, fw_pending, fw_intr, ver_traps, ver_known, outer >>

\* line 284: mutex_lock
Call_lock(t) ==
    /\ pc[t] = "lock"
    /\ mutex_lock(t)
    /\ cnt' = [cnt EXCEPT ![t] = Count(@, "lock")]
    /\ pc' = [pc EXCEPT ![t] = "flush"]
    /\ UNCHANGED << args, cmd, rsp, ret, resp_buf, r0, r1, r2, heap, version,
                    fw_version, fw_pending, fw_intr, ver_traps, ver_known, outer >>

\* a command that is not flushed before the trap
FlushNothing(b) == b

\* the buffer after the flush of __qcom_scm_call: cmd->len bytes from cmd
FlushCommand(b) == secure_flush_area(b, 0, CpuReadLE32(b, OffCmdLen))

\* the address __qcom_scm_call passes to smc
CommandAddr(v) == virt_to_phys(v)

\* __qcom_scm_call up to the first trap: flush, load the registers
Call_flush(t) ==
    /\ pc[t] = "flush"
    /\ heap' = HeapWith(cmd[t], FlushCommand(BufAt(cmd[t])))
    /\ r0' = [r0 EXCEPT ![t] = 1]
    /\ r2' = [r2 EXCEPT ![t] = CommandAddr(cmd[t])]
    /\ fw_intr' = [fw_intr EXCEPT ![t] = 0]
    /\ cnt' = [cnt EXCEPT ![t] = Count(@, "flush")]
    /\ pc' = [pc EXCEPT ![t] = "smc"]
    /\ UNCHANGED << args, cmd, rsp, ret, resp_buf, r1, qcom_scm_lock, version,
                    fw_version, fw_pending, ver_traps, ver_known, outer >>

\* a trap that is not retried
SmcOnce(r) == "unlock"

\* where smc goes after a trap that returned r: around the loop, or out
SmcNext(r) == IF r = QCOM_SCM_INTERRUPTED THEN "smc" ELSE "unlock"

\* one trap of smc (lines 195-208); when the loop ends, the rest of
\* __qcom_scm_call (lines 225-228)
Call_smc(t, answers) ==
    /\ pc[t] = "smc"
    /\ \E r \in answers \cup
                (IF fw_intr[t] < MaxInterrupted THEN {QCOM_SCM_INTERRUPTED} ELSE {}) :
         /\ r0' = [r0 EXCEPT ![t] = r]
         /\ fw_intr' = [fw_intr EXCEPT ![t] = IF r = QCOM_SCM_INTERRUPTED THEN @ + 1 ELSE 0]
         /\ fw_pending' = IF r = 0 THEN fw_pending \cup {r2[t]} ELSE fw_pending
         /\ pc' = [pc EXCEPT ![t] = SmcNext(r)]
         /\ ret' = [ret EXCEPT ![t] = IF SmcNext(r) = "smc" THEN @
                                       ELSE qcom_scm_call_result(r)]
    /\ cnt' = [cnt EXCEPT ![t] = Mark(@, "trap")]
    /\ UNCHANGED << args, cmd, rsp, resp_buf, r1, r2, heap, qcom_scm_lock, version,
                    fw_version, ver_traps, ver_known, outer >>

\* line 286: mutex_unlock
Call_unlock(t) ==
    /\ pc[t] = "unlock"
    /\ mutex_unlock(t)
    /\ pc' = [pc EXCEPT ![t] = "check"]
    /\ UNCHANGED << locals, heap, version, fw_version, fw_pending, fw_intr,
                    ver_traps, ver_known, outer >>

\* a call that polls for the response whatever the trap returned
AfterTrapAlwaysPoll(result) == "inv_hdr"

\* where qcom_scm_call goes once the trap result is known
AfterTrap(result) == IF result # 0 THEN "out" ELSE "inv_hdr"

\* lines 287-291: if (ret) goto out; else find the response header
Call_check(t) ==
    /\ pc[t] = "check"
    /\ pc' = [pc EXCEPT ![t] = AfterTrap(ret[t])]
    /\ IF AfterTrap(ret[t]) = "out"
       THEN UNCHANGED << rsp, heap >>
       ELSE /\ rsp' = [rsp EXCEPT ![t] = qcom_scm_command_to_response(BufAt(cmd[t]))]
            /\ heap' = HeapWith(cmd[t], CpuTouch(BufAt(cmd[t]), OffCmdRespHdrOffset, 4))
    /\ UNCHANGED << args, cmd, ret, resp_buf, r0, r1, r2, cnt, qcom_scm_lock, version,
                    fw_version, fw_pending, fw_intr, ver_traps, ver_known, outer >>

\* line 294: invalidate the response header
Call_inv_hdr(t) ==
    /\ pc[t] = "inv_hdr"
    /\ heap' = HeapWith(cmd[t],
                 qcom_scm_inv_range(BufAt(cmd[t]), rsp[t], rsp[t] + SizeofResponse))
    /\ cnt' = [cnt EXCEPT ![t] = Mark(@, "inv")]
    /\ pc' = [pc EXCEPT ![t] = "poll"]
    /\ UNCHANGED << args, cmd, rsp, ret, resp_buf, r0, r1, r2, qcom_scm_lock, version,
                    fw_version, fw_pending, fw_intr, ver_traps, ver_known, outer >>

\* rsp->is_complete as the CPU reads it
IsComplete(b, hdr) == CpuReadLE32(b, hdr + OffRspIsComplete)

\* a poll loop with its condition inverted
PollInverted(flag) == IF flag = 0 THEN "inv_full" ELSE "inv_hdr"

\* where the poll loop goes after reading the completion flag
PollNext(flag) == IF flag = 0 THEN "inv_hdr" ELSE "inv_full"

\* line 295: read the completion flag
Call_poll(t) ==
    /\ pc[t] = "poll"
    /\ pc' = [pc EXCEPT ![t] = PollNext(IsComplete(BufAt(cmd[t]), rsp[t]))]
    /\ heap' = HeapWith(cmd[t], CpuTouch(BufAt(cmd[t]), rsp[t] + OffRspIsComplete, 4))
    /\ cnt' = [cnt EXCEPT ![t] = Mark(@, "poll")]
    /\ UNCHANGED << args, cmd, rsp, ret, resp_buf, r0, r1, r2, qcom_scm_lock, version,
                    fw_version, fw_pending, fw_intr, ver_traps, ver_known, outer >>

\* an invalidation that stops at the end of the response header
InvalidateHeaderOnly(b, hdr, resp_len) ==
    qcom_scm_inv_range(CpuTouch(b, hdr + OffRspBufOffset, 4), hdr, hdr + SizeofResponse)

\* the buffer after lines 297-298: read rsp->buf_offset, invalidate header and payload
InvalidateResponse(b, hdr, resp_len) ==
    qcom_scm_inv_range(CpuTouch(b, hdr + OffRspBufOffset, 4),
                       hdr, qcom_scm_get_response_buffer(b, hdr) + resp_len)

\* lines 297-298
Call_inv_full(t) ==
    /\ pc[t] = "inv_full"
    /\ heap' = HeapWith(cmd[t], InvalidateResponse(BufAt(cmd[t]), rsp[t], args[t].resp_len))
    /\ cnt' = [cnt EXCEPT ![t] = Mark(@, "inv")]
    /\ pc' = [pc EXCEPT ![t] = "copy"]
    /\ UNCHANGED << args, cmd, rsp, ret, resp_buf, r0, r1, r2, qcom_scm_lock, version,
                    fw_version, fw_pending, fw_intr, ver_traps, ver_known, outer >>

\* the bytes memcpy takes out of the buffer at line 301
ResponseBytes(b, hdr, resp_len) ==
    CpuRead(CpuTouch(b, hdr + OffRspBufOffset, 4),
            qcom_scm_get_response_buffer(b, hdr), resp_len)

\* the buffer after the reads of line 301
ResponseTouched(b, hdr, resp_len) ==
    CpuTouch(CpuTouch(b, hdr + OffRspBufOffset, 4),
             qcom_scm_get_response_buffer(b, hdr), resp_len)

\* lines 300-301: copy the response out
Call_copy(t) ==
    /\ pc[t] = "copy"
    /\ IF args[t].has_resp
       THEN /\ resp_buf' = [resp_buf EXCEPT ![t] =
                              memcpy(@, ResponseBytes(BufAt(cmd[t]), rsp[t], args[t].resp_len))]
            /\ heap' = HeapWith(cmd[t],
                         ResponseTouched(BufAt(cmd[t]), rsp[t], args[t].resp_len))
            /\ cnt' = [cnt EXCEPT ![t] = Count(@, "copy")]
       ELSE UNCHANGED << resp_buf, heap, cnt >>
    /\ pc' = [pc EXCEPT ![t] = "out"]
    /\ UNCHANGED << args, cmd, rsp, ret, r0, r1, r2, qcom_scm_lock, version,
                    fw_version, fw_pending, fw_intr, ver_traps, ver_known, outer >>

\* lines 302-304: free the command and return ret
Call_out(t) ==
    /\ pc[t] = "out"
    /\ heap' = kfree(cmd[t])
    /\ cnt' = [cnt EXCEPT ![t] = Count(@, "free")]
    /\ pc' = [pc EXCEPT ![t] = "ret"]
    /\ UNCHANGED << args, cmd, rsp, ret, resp_buf, r0, r1, r2, qcom_scm_lock, version,
                    fw_version, fw_pending, fw_intr, ver_traps, ver_known, outer >>

(* ------------------------ qcom_scm_get_version ------------------------- *)

\* versions the monitor may report; the second equals the "unset" marker
FwVersions == {65538, VersionUnset}

\* the function id of the version query: 0x1 << 8
VersionFnId == Shl32(1, 8)

\* a version that is never taken from the cache
VersionNeverCached(v) == FALSE

\* line 353: is the cached version to be returned straight away?
VersionCached(v) == v # VersionUnset

\* lines 353-354: enter qcom_scm_get_version and read the cached version
Version_check(t) ==
    /\ pc[t] = "idle"
    /\ args' = [args EXCEPT ![t] = [NoArgs EXCEPT !.fn = "version"]]
    /\ IF VersionCached(version)
       THEN /\ ret' = [ret EXCEPT ![t] = version]
            /\ pc' = [pc EXCEPT ![t] = "ret"]
            /\ ver_known' = version
       ELSE /\ pc' = [pc EXCEPT ![t] = "v_lock"]
            /\ UNCHANGED << ret, ver_known, outer >>
    /\ UNCHANGED << cmd, rsp, resp_buf, r0, r1, r2, cnt, heap, qcom_scm_lock, version,
                    fw_version, fw_pending, fw_intr, ver_traps, outer >>

\* lines 356-359: take the mutex, load the registers
Version_lock(t) ==
    /\ pc[t] = "v_lock"
    /\ mutex_lock(t)
    /\ r0' = [r0 EXCEPT ![t] = VersionFnId]
    /\ r1' = [r1 EXCEPT ![t] = 0]
    /\ fw_intr' = [fw_intr EXCEPT ![t] = 0]
    /\ cnt' = [cnt EXCEPT ![t] = Count(@, "lock")]
    /\ pc' = [pc EXCEPT ![t] = "v_smc"]
    /\ UNCHANGED << args, cmd, rsp, ret, resp_buf, r2, heap, version, fw_version,
                    fw_pending, ver_traps, ver_known, outer >>

\* one trap of the version loop (lines 360-373); when the loop ends, line 375
Version_smc(t) ==
    /\ pc[t] = "v_smc"
    /\ \E r \in {0} \cup (IF fw_intr[t] < MaxInterrupted THEN {QCOM_SCM_INTERRUPTED} ELSE {}) :
         /\ r0' = [r0 EXCEPT ![t] = r]
         /\ r1' = [r1 EXCEPT ![t] = IF r = 0 THEN fw_version ELSE @]
         /\ fw_intr' = [fw_intr EXCEPT ![t] = IF r = QCOM_SCM_INTERRUPTED THEN @ + 1 ELSE 0]
         /\ pc' = [pc EXCEPT ![t] = IF r = QCOM_SCM_INTERRUPTED THEN "v_smc" ELSE "v_unlock"]
         /\ version' = IF r = QCOM_SCM_INTERRUPTED THEN version ELSE r1'[t]
    /\ cnt' = [cnt EXCEPT ![t] = Mark(@, "trap")]
    /\ ver_traps' = IF ver_traps < MaxCount THEN ver_traps + 1 ELSE ver_traps
    /\ UNCHANGED << args, cmd, rsp, ret, resp_buf, r2, heap, qcom_scm_lock, fw_version,
                    fw_pending, ver_known, outer >>

\* lines 376-378: release the mutex and return the version
Version_unlock(t) ==
    /\ pc[t] = "v_unlock"
    /\ mutex_unlock(t)
    /\ ret' = [ret EXCEPT ![t] = version]
    /\ ver_known' = version
    /\ pc' = [pc EXCEPT ![t] = "ret"]
    /\ UNCHANGED << args, cmd, rsp, resp_buf, r0, r1, r2, cnt, heap, version, fw_version,
                    fw_pending, fw_intr, ver_traps, outer >>

(* ------------------------ qcom_scm_call_atomic1 ------------------------ *)

SCM_CLASS_REGISTER == 512
SCM_MASK_IRQS == 32

\* SCM_ATOMIC(svc, cmd, n)
SCM_ATOMIC(svc, c, n) ==
    BitOr(BitOr(BitOr(Shl32(BitOr(Shl32(svc, 10), BitAnd(c, 1023)), 12),
                      SCM_CLASS_REGISTER), SCM_MASK_IRQS), BitAnd(n, 15))

\* what the monitor may answer an atomic trap with
FwAtomicAnswers == {0, QCOM_SCM_INTERRUPTED, -1}

\* arguments of the atomic calls the threads make
AtomicArgs == { [svc |-> 1, cmd |-> 2, arg1 |-> 1] }

\* an atomic call that waits for the mutex to be free
AtomicNeedsLock(t) == qcom_scm_lock = 0

\* may thread t take the atomic trap now?  (it asks for nothing)
AtomicMayTrap(t) == TRUE

\* lines 327-339: load the registers and trap; the core is in the monitor
Atomic_trap(t, a) ==
    /\ pc[t] = "idle"
    /\ AtomicMayTrap(t)
    /\ args' = [args EXCEPT ![t] = [NoArgs EXCEPT !.fn = "atomic", !.svc = a.svc, !.cmd = a.cmd]]
    /\ r0' = [r0 EXCEPT ![t] = SCM_ATOMIC(a.svc, a.cmd, 1)]
    /\ r2' = [r2 EXCEPT ![t] = a.arg1]
    /\ cnt' = [cnt EXCEPT ![t] = Mark(@, "trap")]
    /\ pc' = [pc EXCEPT ![t] = "a_smc"]
    /\ UNCHANGED << cmd, rsp, ret, resp_buf, r1, heap, qcom_scm_lock, version, fw_version,
                    fw_pending, fw_intr, ver_traps, ver_known, outer >>

\* lines 340-343: the monitor returns, r0 is the result
Atomic_return(t) ==
    /\ pc[t] = "a_smc"
    /\ \E r \in FwAtomicAnswers :
         /\ r0' = [r0 EXCEPT ![t] = r]
         /\ ret' = [ret EXCEPT ![t] = r]
    /\ pc' = [pc EXCEPT ![t] = "ret"]
    /\ UNCHANGED << args, cmd, rsp, resp_buf, r1, r2, cnt, heap, qcom_scm_lock, version,
                    fw_version, fw_pending, fw_intr, ver_traps, ver_known, outer >>

(* ------------------------- callers of the transport -------------------- *)

\* arguments of the plain qcom_scm_call invocations the threads make
CallArgs ==
    { [fn |-> "call", svc |-> 1, cmd |-> 1, has_cmd |-> TRUE, cmd_buf |-> << 1, 2, 3, 4 >>,
       cmd_len |-> 4, has_resp |-> TRUE, resp_len |-> 4],
      [fn |-> "call", svc |-> 12, cmd |-> 18, has_cmd |-> TRUE, cmd_buf |-> << 9, 8 >>,
       cmd_len |-> 2, has_resp |-> FALSE, resp_len |-> 0] }

\* the one kind of call the threads of Spec make
FewCallArgs ==
    { [fn |-> "call", svc |-> 1, cmd |-> 1, has_cmd |-> TRUE, cmd_buf |-> << 1, 2, 3, 4 >>,
       cmd_len |-> 4, has_resp |-> TRUE, resp_len |-> 4] }

\* a caller's response buffer before the call
FreshResp(a) == IF a.has_resp THEN [i \in 1..a.resp_len |-> RespFill] ELSE << >>

\* a thread calls qcom_scm_call(svc, cmd, cmd_buf, cmd_len, resp_buf, resp_len)
Call_enter(t, a) ==
    /\ pc[t] = "idle"
    /\ args' = [args EXCEPT ![t] = a]
    /\ resp_buf' = [resp_buf EXCEPT ![t] = FreshResp(a)]
    /\ pc' = [pc EXCEPT ![t] = "call"]
    /\ UNCHANGED << cmd, rsp, ret, r0, r1, r2, cnt, heap, qcom_scm_lock, version,
                    fw_version, fw_pending, fw_intr, ver_traps, ver_known, outer >>

\* the function has returned; the thread is free for the next one
Return(t) ==
    /\ pc[t] = "ret"
    /\ wr[t].name = "none"
    /\ pc' = [pc EXCEPT ![t] = "idle"]
    /\ args' = [args EXCEPT ![t] = NoArgs]
    /\ cmd' = [cmd EXCEPT ![t] = NULL]
    /\ rsp' = [rsp EXCEPT ![t] = 0]
    /\ ret' = [ret EXCEPT ![t] = 0]
    /\ resp_buf' = [resp_buf EXCEPT ![t] = << >>]
    /\ r0' = [r0 EXCEPT ![t] = 0]
    /\ r1' = [r1 EXCEPT ![t] = 0]
    /\ r2' = [r2 EXCEPT ![t] = 0]
    /\ cnt' = [cnt EXCEPT ![t] = NoCount]
    /\ fw_intr' = [fw_intr EXCEPT ![t] = 0]
    /\ UNCHANGED << heap, qcom_scm_lock, version, fw_version, fw_pending, ver_traps,
                    ver_known, outer >>

(* --------------------------- service wrappers -------------------------- *)

\* the service and command ids of qcom_scm.h that the wrappers send
qcom_scm_h ==
    [QCOM_SCM_SVC_BOOT |-> 1, QCOM_SCM_SVC_PIL |-> 2, QCOM_SCM_SVC_INFO |-> 6,
     QCOM_SCM_SVC_HDCP |-> 17, QCOM_IS_CALL_AVAIL_CMD |-> 1, QCOM_SCM_CMD_HDCP |-> 1,
     QCOM_SCM_HDCP_MAX_REQ_CNT |-> 5, QCOM_SCM_PAS_INIT_IMAGE_CMD |-> 1,
     QCOM_SCM_PAS_MEM_SETUP_CMD |-> 2, QCOM_SCM_PAS_AUTH_AND_RESET_CMD |-> 5,
     QCOM_SCM_PAS_SHUTDOWN_CMD |-> 6, QCOM_SCM_PAS_IS_SUPPORTED_CMD |-> 7,
     QCOM_SCM_PAS_MSS_RESET |-> 10, SCM_SVC_PIL |-> 2, PAS_INIT_IMAGE_CMD |-> 1,
     PAS_MEM_SETUP_CMD |-> 2, PAS_AUTH_AND_RESET_CMD |-> 5, PAS_SHUTDOWN_CMD |-> 6,
     SCM_SVC_INFO |-> 6, GET_FEAT_VERSION_CMD |-> 3, SCM_SVC_BOOT |-> 1,
     QCOM_SCM_BOOT_ADDR |-> 1]

IOMMU_SECURE_PTBL_SIZE == 3
IOMMU_SECURE_PTBL_INIT == 4
IOMMU_SET_CP_POOL_SIZE == 5
IOMMU_SECURE_MAP2 == 11
IOMMU_SECURE_UNMAP2 == 12
SCM_SVC_UTIL == 3
SCM_SVC_MP == 12
IOMMU_DUMP_SMMU_FAULT_REGS == 12
RESTORE_SEC_CFG == 2
TZBSP_VIDEO_SET_STATE == 10
TZBSP_MEM_PROTECT_VIDEO_VAR == 8

\* sizeof of a pointer, which is what sizeof(psize) of an array parameter is
SizeofPointer == 4

\* bytes an uninitialised local may hold
StackResidue == {0, RespFill}

\* a struct of u32 fields as it lies in memory
StructBytes(x) ==
    [i \in 1..(4 * Len(x)) |-> cpu_to_le32(x[((i - 1) \div 4) + 1])[((i - 1) % 4) + 1]]

\* n bytes of a local: zeroed by its initializer, or left as the stack had them
Local(n, byte) == [i \in 1..n |-> byte]

\* what a wrapper hands to qcom_scm_call and what it makes of the outcome:
\* resp "addr" passes the address of the local, "value" passes its value as
\* the pointer; result names the wrapper's return statement; early is the
\* value returned without any call (0: none)
ServiceCall(svc, c, cmd_buf, resp, resp_init, resp_len, result) ==
    [svc |-> svc, cmd |-> c, cmd_buf |-> cmd_buf, resp |-> resp, resp_init |-> resp_init,
     resp_len |-> resp_len, result |-> result, early |-> 0]

\* lines 481-493; x = << svc_id, cmd_id >>
__qcom_scm_is_call_available(x, s) ==
    ServiceCall(qcom_scm_h.QCOM_SCM_SVC_INFO, qcom_scm_h.QCOM_IS_CALL_AVAIL_CMD,
                cpu_to_le32(CommandId(x[1], x[2])), "addr", Local(4, 0), 4, "ret_or_word")

\* lines 495-502; x = << req_cnt >>, the requests being (addr, val) pairs
__qcom_scm_hdcp_req(x, s) ==
    [ServiceCall(qcom_scm_h.QCOM_SCM_SVC_HDCP, qcom_scm_h.QCOM_SCM_CMD_HDCP,
                 StructBytes([i \in 1..(2 * x[1]) |-> i]), "addr", Local(4, s), 4, "ret")
     EXCEPT !.early = IF x[1] > qcom_scm_h.QCOM_SCM_HDCP_MAX_REQ_CNT THEN -ERANGE ELSE 0]

\* lines 504-512; x = << reset >>
__qcom_scm_pas_mss_reset(x, s) ==
    ServiceCall(qcom_scm_h.QCOM_SCM_SVC_PIL, qcom_scm_h.QCOM_SCM_PAS_MSS_RESET,
                cpu_to_le32(x[1]), "addr", Local(4, s), 4, "ret")

\* lines 514-524; x = << peripheral >>
__qcom_scm_pas_supported(x, s) ==
    ServiceCall(qcom_scm_h.QCOM_SCM_SVC_PIL, qcom_scm_h.QCOM_SCM_PAS_IS_SUPPORTED_CMD,
                StructBytes(x), "addr", Local(4, s), 4, "bool")

\* lines 526-543; x = << peripheral, metadata_phys >>
__qcom_scm_pas_init_image(x, s) ==
    ServiceCall(qcom_scm_h.QCOM_SCM_SVC_PIL, qcom_scm_h.QCOM_SCM_PAS_INIT_IMAGE_CMD,
                cpu_to_le32(x[1]) \o cpu_to_le32(x[2]), "addr", Local(4, s), 4,
                "ret_or_word")

\* lines 545-564; x = << peripheral, addr, size >>
__qcom_scm_pas_mem_setup(x, s) ==
    ServiceCall(qcom_scm_h.QCOM_SCM_SVC_PIL, qcom_scm_h.QCOM_SCM_PAS_MEM_SETUP_CMD,
                StructBytes(x), "addr", Local(4, s), 4, "ret_or_word")

\* lines 566-576; x = << peripheral >>
__qcom_scm_pas_auth_and_reset(x, s) ==
    ServiceCall(qcom_scm_h.QCOM_SCM_SVC_PIL, qcom_scm_h.QCOM_SCM_PAS_AUTH_AND_RESET_CMD,
                StructBytes(x), "addr", Local(4, s), 4, "ret_or_word")

\* lines 578-588; x = << peripheral >>
__qcom_scm_pas_shutdown(x, s) ==
    ServiceCall(qcom_scm_h.QCOM_SCM_SVC_PIL, qcom_scm_h.QCOM_SCM_PAS_SHUTDOWN_CMD,
                StructBytes(x), "addr", Local(4, s), 4, "ret_or_word")

\* lines 591-609; x = << proc, image_addr >>
__qcom_scm_pil_init_image_cmd(x, s) ==
    ServiceCall(qcom_scm_h.SCM_SVC_PIL, qcom_scm_h.PAS_INIT_IMAGE_CMD,
                StructBytes(x), "addr", Local(4, 0), 4, "ret_or_word")

\* lines 611-631; x = << proc, start_addr, len >>
__qcom_scm_pil_mem_setup_cmd(x, s) ==
    ServiceCall(qcom_scm_h.SCM_SVC_PIL, qcom_scm_h.PAS_MEM_SETUP_CMD,
                StructBytes(x), "addr", Local(4, 0), 4, "ret_or_word")

\* lines 633-647; x = << proc >>
__qcom_scm_pil_auth_and_reset_cmd(x, s) ==
    ServiceCall(qcom_scm_h.SCM_SVC_PIL, qcom_scm_h.PAS_AUTH_AND_RESET_CMD,
                StructBytes(x), "addr", Local(4, 0), 4, "ret_or_word")

\* lines 649-663; x = << proc >>
__qcom_scm_pil_shutdown_cmd(x, s) ==
    ServiceCall(qcom_scm_h.SCM_SVC_PIL, qcom_scm_h.PAS_SHUTDOWN_CMD,
                StructBytes(x), "addr", Local(4, 0), 4, "ret_or_word")

\* lines 669-681; the arguments are never stored into req, which goes out
\* as the stack left it; one byte of the response is asked for
__qcom_scm_iommu_dump_fault_regs(x, s) ==
    ServiceCall(SCM_SVC_UTIL, IOMMU_DUMP_SMMU_FAULT_REGS,
                Local(16, s), "addr", Local(4, 0), 1, "ret")

\* lines 683-696; x = << size, spare >>
__qcom_scm_iommu_set_cp_pool_size(x, s) ==
    ServiceCall(SCM_SVC_MP, IOMMU_SET_CP_POOL_SIZE,
                StructBytes(x), "addr", Local(4, s), 4, "ret")

\* lines 698-708; x = << spare >>; psize is the caller's int[2]
__qcom_scm_iommu_secure_ptbl_size(x, s) ==
    ServiceCall(SCM_SVC_MP, IOMMU_SECURE_PTBL_SIZE,
                StructBytes(x), "addr", Local(8, s), SizeofPointer, "ret")

\* lines 710-733; x = << addr, size, spare >>
__qcom_scm_iommu_secure_ptbl_init(x, s) ==
    ServiceCall(SCM_SVC_MP, IOMMU_SECURE_PTBL_INIT,
                StructBytes(x), "addr", Local(4, 0), 4, "ret_or_word")

\* lines 735-772; x = << list, list_size, size, id, ctx_id, va, info_size, flags >>
__qcom_scm_iommu_secure_map(x, s) ==
    ServiceCall(SCM_SVC_MP, IOMMU_SECURE_MAP2,
                StructBytes(x), "addr", Local(4, s), 4, "einval")

\* lines 774-796; x = << id, ctx_id, va, size, flags >>
__qcom_scm_iommu_secure_unmap(x, s) ==
    ServiceCall(SCM_SVC_MP, IOMMU_SECURE_UNMAP2,
                StructBytes(x), "addr", Local(4, s), 4, "ret")

\* lines 798-811, the call of line 805; x = << feat >>
__qcom_scm_get_feat_version(x, s) ==
    ServiceCall(qcom_scm_h.SCM_SVC_INFO, qcom_scm_h.GET_FEAT_VERSION_CMD,
                StructBytes(x), "addr", Local(4, s), 4, "version")

\* lines 814-831; x = << device_id, spare >>; the value of scm_ret, not its
\* address, is passed as the response buffer
__qcom_scm_restore_sec_cfg(x, s) ==
    ServiceCall(SCM_SVC_MP, RESTORE_SEC_CFG,
                StructBytes(x), "value", Local(4, 0), 4, "ret_or_einval")

\* lines 834-852; x = << state, spare >>
__qcom_scm_set_video_state(x, s) ==
    ServiceCall(qcom_scm_h.SCM_SVC_BOOT, TZBSP_VIDEO_SET_STATE,
                StructBytes(x), "addr", Local(4, 0), 4, "ret_or_einval")

\* lines 856-879; x = << start, size, nonpixel_start, nonpixel_size >>
__qcom_scm_mem_protect_video_var(x, s) ==
    ServiceCall(SCM_SVC_MP, TZBSP_MEM_PROTECT_VIDEO_VAR,
                StructBytes(x), "addr", Local(4, s), 4, "ret_or_einval")

\* the first call a wrapper makes
WrapperOf(name, x, s) ==
    CASE name = "__qcom_scm_is_call_available" -> __qcom_scm_is_call_available(x, s)
      [] name = "__qcom_scm_hdcp_req" -> __qcom_scm_hdcp_req(x, s)
      [] name = "__qcom_scm_pas_mss_reset" -> __qcom_scm_pas_mss_reset(x, s)
      [] name = "__qcom_scm_pas_supported" -> __qcom_scm_pas_supported(x, s)
      [] name = "__qcom_scm_pas_init_image" -> __qcom_scm_pas_init_image(x, s)
      [] name = "__qcom_scm_pas_mem_setup" -> __qcom_scm_pas_mem_setup(x, s)
      [] name = "__qcom_scm_pas_auth_and_reset" -> __qcom_scm_pas_auth_and_reset(x, s)
      [] name = "__qcom_scm_pas_shutdown" -> __qcom_scm_pas_shutdown(x, s)
      [] name = "__qcom_scm_pil_init_image_cmd" -> __qcom_scm_pil_init_image_cmd(x, s)
      [] name = "__qcom_scm_pil_mem_setup_cmd" -> __qcom_scm_pil_mem_setup_cmd(x, s)
      [] name = "__qcom_scm_pil_auth_and_reset_cmd" -> __qcom_scm_pil_auth_and_reset_cmd(x, s)
      [] name = "__qcom_scm_pil_shutdown_cmd" -> __qcom_scm_pil_shutdown_cmd(x, s)
      [] name = "__qcom_scm_iommu_dump_fault_regs" -> __qcom_scm_iommu_dump_fault_regs(x, s)
      [] name = "__qcom_scm_iommu_set_cp_pool_size" -> __qcom_scm_iommu_set_cp_pool_size(x, s)
      [] name = "__qcom_scm_iommu_secure_ptbl_size" -> __qcom_scm_iommu_secure_ptbl_size(x, s)
      [] name = "__qcom_scm_iommu_secure_ptbl_init" -> __qcom_scm_iommu_secure_ptbl_init(x, s)
      [] name = "__qcom_scm_iommu_secure_map" -> __qcom_scm_iommu_secure_map(x, s)
      [] name = "__qcom_scm_iommu_secure_unmap" -> __qcom_scm_iommu_secure_unmap(x, s)
      [] name = "__qcom_scm_get_feat_version" ->
           [__qcom_scm_is_call_available(<< qcom_scm_h.SCM_SVC_INFO,
                                            qcom_scm_h.GET_FEAT_VERSION_CMD >>, s)
            EXCEPT !.result = "version"]
      [] name = "__qcom_scm_restore_sec_cfg" -> __qcom_scm_restore_sec_cfg(x, s)
      [] name = "__qcom_scm_set_video_state" -> __qcom_scm_set_video_state(x, s)
      [] name = "__qcom_scm_mem_protect_video_var" -> __qcom_scm_mem_protect_video_var(x, s)

\* the wrappers with the arguments they are called with
WrapperInputs ==
    { << "__qcom_scm_is_call_available", << 2, 1 >> >>,
      << "__qcom_scm_hdcp_req", << 1 >> >>,
      << "__qcom_scm_hdcp_req", << 6 >> >>,
      << "__qcom_scm_pas_mss_reset", << 1 >> >>,
      << "__qcom_scm_pas_supported", << 1 >> >>,
      << "__qcom_scm_pas_init_image", << 1, 4096 >> >>,
      << "__qcom_scm_pas_mem_setup", << 1, 4096, 256 >> >>,
      << "__qcom_scm_pas_auth_and_reset", << 1 >> >>,
      << "__qcom_scm_pas_shutdown", << 1 >> >>,
      << "__qcom_scm_pil_init_image_cmd", << 1, 4096 >> >>,
      << "__qcom_scm_pil_mem_setup_cmd", << 1, 4096, 256 >> >>,
      << "__qcom_scm_pil_auth_and_reset_cmd", << 1 >> >>,
      << "__qcom_scm_pil_shutdown_cmd", << 1 >> >>,
      << "__qcom_scm_iommu_dump_fault_regs", << 1, 2, 4096, 16 >> >>,
      << "__qcom_scm_iommu_set_cp_pool_size", << 256, 0 >> >>,
      << "__qcom_scm_iommu_secure_ptbl_size", << 0 >> >>,
      << "__qcom_scm_iommu_secure_ptbl_init", << 4096, 256, 0 >> >>,
      << "__qcom_scm_iommu_secure_map", << 4096, 1, 256, 1, 2, 8192, 256, 0 >> >>,
      << "__qcom_scm_iommu_secure_unmap", << 1, 2, 8192, 256, 0 >> >>,
      << "__qcom_scm_get_feat_version", << 1 >> >>,
      << "__qcom_scm_restore_sec_cfg", << 1, 0 >> >>,
      << "__qcom_scm_set_video_state", << 1, 0 >> >>,
      << "__qcom_scm_mem_protect_video_var", << 4096, 256, 8192, 256 >> >> }

\* the arguments of qcom_scm_call for the call w
WrapperArgs(w) ==
    [fn |-> "call", svc |-> w.svc, cmd |-> w.cmd, has_cmd |-> TRUE, cmd_buf |-> w.cmd_buf,
     cmd_len |-> Len(w.cmd_buf),
     has_resp |-> IF w.resp = "addr" THEN TRUE ELSE le32_to_cpu(w.resp_init) # NULL,
     resp_len |-> w.resp_len]

\* a wrapper that returns its response variable without looking at ret
WrapperResultWord(kind, r, word) == word

\* the return statement of a wrapper, qcom_scm_call having returned r and
\* the wrapper's response variable holding word
WrapperResult(kind, r, word) ==
    CASE kind = "ret" -> r
      [] kind = "ret_or_word" -> IF r # 0 THEN r ELSE word
      [] kind = "bool" -> IF r # 0 THEN 0 ELSE (IF word # 0 THEN 1 ELSE 0)
      [] kind = "einval" -> IF r # 0 \/ word # 0 THEN -EINVAL ELSE 0
      [] kind = "ret_or_einval" ->
           IF r # 0 \/ word # 0 THEN (IF r # 0 THEN r ELSE -EINVAL) ELSE 0
      [] kind = "version" -> IF r = 0 THEN word ELSE 0

\* the wrapper's response variable as a word
ResponseWord(t) == le32_to_cpu(SubSeq(resp_buf[t], 1, 4))

\* a thread calls a wrapper: it returns at once, or builds its request and
\* calls qcom_scm_call
Wrapper_enter(t, name, x, s) ==
    LET w == WrapperOf(name, x, s)
    IN /\ pc[t] = "idle"
       /\ wr[t].name = "none"
       /\ IF w.early # 0
          THEN /\ wr' = [wr EXCEPT ![t] = [name |-> name, x |-> x, kind |-> w.result,
                                           stage |-> 3, calls |-> 0, ret |-> w.early,
                                           idx |-> {}]]
               /\ pc' = [pc EXCEPT ![t] = "ret"]
               /\ UNCHANGED << args, resp_buf >>
          ELSE /\ wr' = [wr EXCEPT ![t] = [name |-> name, x |-> x, kind |-> w.result,
                                           stage |-> 1, calls |-> 1, ret |-> 0,
                                           idx |-> {}]]
               /\ args' = [args EXCEPT ![t] = WrapperArgs(w)]
               /\ resp_buf' = [resp_buf EXCEPT ![t] = w.resp_init]
               /\ pc' = [pc EXCEPT ![t] = "call"]
       /\ UNCHANGED << cmd, rsp, ret, r0, r1, r2, cnt, heap, qcom_scm_lock, version,
                       fw_version, fw_pending, fw_intr, ver_traps, ver_known, qcom_scm_wb, cpu_present, clock >>

\* line 802: does __qcom_scm_get_feat_version go on to its own call?
FeatCallAvailable(r, word) == WrapperResult("ret_or_word", r, word) # 0

\* qcom_scm_call has returned to the wrapper: __qcom_scm_get_feat_version,
\* told that its command is available, calls again; every other wrapper returns
Wrapper_next(t) ==
    /\ pc[t] = "ret"
    /\ wr[t].stage \in {1, 2}
    /\ wr[t].kind # "warm"
    /\ IF wr[t].kind = "version" /\ wr[t].stage = 1
       THEN IF FeatCallAvailable(ret[t], ResponseWord(t))
            THEN \E s \in StackResidue :
                 LET w == __qcom_scm_get_feat_version(wr[t].x, s)
                 IN /\ wr' = [wr EXCEPT ![t].stage = 2,
                                        ![t].calls = IF @ < MaxCount THEN @ + 1 ELSE @]
                    /\ args' = [args EXCEPT ![t] = WrapperArgs(w)]
                    /\ resp_buf' = [resp_buf EXCEPT ![t] = w.resp_init]
                    /\ cmd' = [cmd EXCEPT ![t] = NULL]
                    /\ rsp' = [rsp EXCEPT ![t] = 0]
                    /\ ret' = [ret EXCEPT ![t] = 0]
                    /\ r0' = [r0 EXCEPT ![t] = 0]
                    /\ r1' = [r1 EXCEPT ![t] = 0]
                    /\ r2' = [r2 EXCEPT ![t] = 0]
                    /\ cnt' = [cnt EXCEPT ![t] = NoCount]
                    /\ pc' = [pc EXCEPT ![t] = "call"]
            ELSE /\ wr' = [wr EXCEPT ![t].stage = 3, ![t].ret = 0]
                 /\ UNCHANGED << pc, locals >>
       ELSE /\ wr' = [wr EXCEPT ![t].stage = 3,
                                ![t].ret = WrapperResult(wr[t].kind, ret[t], ResponseWord(t))]
            /\ UNCHANGED << pc, locals >>
    /\ UNCHANGED << heap, qcom_scm_lock, version, fw_version, fw_pending, fw_intr,
                    ver_traps, ver_known, qcom_scm_wb, cpu_present, clock >>

\* the wrapper has returned; the thread is free for the next one
Wrapper_done(t) ==
    /\ pc[t] = "ret"
    /\ wr[t].stage = 3
    /\ wr' = [wr EXCEPT ![t] = NoWrapper]
    /\ pc' = [pc EXCEPT ![t] = "idle"]
    /\ args' = [args EXCEPT ![t] = NoArgs]
    /\ cmd' = [cmd EXCEPT ![t] = NULL]
    /\ rsp' = [rsp EXCEPT ![t] = 0]
    /\ ret' = [ret EXCEPT ![t] = 0]
    /\ resp_buf' = [resp_buf EXCEPT ![t] = << >>]
    /\ r0' = [r0 EXCEPT ![t] = 0]
    /\ r1' = [r1 EXCEPT ![t] = 0]
    /\ r2' = [r2 EXCEPT ![t] = 0]
    /\ cnt' = [cnt EXCEPT ![t] = NoCount]
    /\ fw_intr' = [fw_intr EXCEPT ![t] = 0]
    /\ UNCHANGED << heap, qcom_scm_lock, version, fw_version, fw_pending, ver_traps,
                    ver_known, qcom_scm_wb, cpu_present, clock >>

(* ------------------------ boot address wrappers ------------------------ *)

\* the cpu masks the callers pass
CpuMasks == { m \in SUBSET (0..MaxCpu) : Cardinality(m) <= MaxMask }

\* the entry points the callers pass (kernel addresses)
Entries == { PAGE_OFFSET + 32768, PAGE_OFFSET + 36864 }

\* scm_cb_flags[] of __qcom_scm_set_cold_boot_addr
scm_cb_flags ==
    [c \in 0..3 |-> CASE c = 0 -> QCOM_SCM_FLAG_COLDBOOT_CPU0
                      [] c = 1 -> QCOM_SCM_FLAG_COLDBOOT_CPU1
                      [] c = 2 -> QCOM_SCM_FLAG_COLDBOOT_CPU2
                      [] c = 3 -> QCOM_SCM_FLAG_COLDBOOT_CPU3]

\* ARRAY_SIZE of an array indexed from 0
ARRAY_SIZE(a) == Cardinality(DOMAIN a)

\* what a read past the end of qcom_scm_wb[] may find there
BeyondCells == { [flag |-> f, entry |-> e] : f \in {0, 128}, e \in {NULL} \cup Entries }

\* the memory behind qcom_scm_wb[], as far as a cpu number can reach
Beyond == [((0..MaxCpu) \ DOMAIN qcom_scm_wb) -> BeyondCells]

\* the value a write past the end of qcom_scm_wb[] leaves in the mutex when
\* it lands there
Clobbered == -1

\* qcom_scm_wb[cpu] as lines 449 and 451 read it, no bound being checked
WbRead(cpu, beyond) ==
    IF cpu \in DOMAIN qcom_scm_wb THEN qcom_scm_wb[cpu] ELSE beyond[cpu]

\* flags |= f[cpu] over the cpus, starting from 0
OrOver(f) ==
    LET acc[c \in 0..(MaxCpu + 1)] == IF c > MaxCpu THEN 0 ELSE BitOr(f[c], acc[c + 1])
    IN acc[0]

\* lines 448-452: the flags of the cpus of the mask whose entry differs
WarmFlags(entry, cpus, beyond) ==
    OrOver([c \in 0..MaxCpu |->
              IF c \in cpus /\ entry # WbRead(c, beyond).entry
              THEN WbRead(c, beyond).flag ELSE 0])

\* lines 420-425: the flags of the cpus of the mask that the table knows
ColdFlags(cpus) ==
    OrOver([c \in 0..MaxCpu |->
              IF c \in cpus /\ c < ARRAY_SIZE(scm_cb_flags) THEN scm_cb_flags[c] ELSE 0])

\* lines 385-396: the call of qcom_scm_set_boot_addr(addr, flags); no response
qcom_scm_set_boot_addr(addr, flags) ==
    ServiceCall(qcom_scm_h.QCOM_SCM_SVC_BOOT, qcom_scm_h.QCOM_SCM_BOOT_ADDR,
                cpu_to_le32(flags) \o cpu_to_le32(addr), "value", Local(4, NULL), 0, "ret")

\* lines 406-427: __qcom_scm_set_cold_boot_addr up to its qcom_scm_call
ColdBoot_enter(t, entry, has_cpus, cpus) ==
    /\ pc[t] = "idle"
    /\ wr[t].name = "none"
    /\ IF ~has_cpus \/ cpus = {}
       THEN /\ wr' = [wr EXCEPT ![t] =
                        [NoWrapper EXCEPT !.name = "__qcom_scm_set_cold_boot_addr",
                                          !.x = << entry, cpus >>, !.kind = "ret",
                                          !.stage = 3, !.ret = -EINVAL]]
            /\ pc' = [pc EXCEPT ![t] = "ret"]
            /\ UNCHANGED << args, resp_buf, cpu_present >>
       ELSE LET w == qcom_scm_set_boot_addr(virt_to_phys(entry), ColdFlags(cpus))
            IN /\ wr' = [wr EXCEPT ![t] =
                           [NoWrapper EXCEPT !.name = "__qcom_scm_set_cold_boot_addr",
                                             !.x = << entry, cpus >>, !.kind = "ret",
                                             !.stage = 1, !.calls = 1,
                                             !.idx = { c \in cpus : c < ARRAY_SIZE(scm_cb_flags) }]]
               /\ cpu_present' = cpu_present \ { c \in cpus : ~(c < ARRAY_SIZE(scm_cb_flags)) }
               /\ args' = [args EXCEPT ![t] = WrapperArgs(w)]
               /\ resp_buf' = [resp_buf EXCEPT ![t] = w.resp_init]
               /\ pc' = [pc EXCEPT ![t] = "call"]
    /\ UNCHANGED << cmd, rsp, ret, r0, r1, r2, cnt, heap, qcom_scm_lock, version,
                    fw_version, fw_pending, fw_intr, ver_traps, ver_known, qcom_scm_wb,
                    clock >>

\* lines 438-458: __qcom_scm_set_warm_boot_addr up to its qcom_scm_call, or
\* to its return when no flag was collected
WarmBoot_enter(t, entry, cpus, beyond) ==
    LET flags == WarmFlags(entry, cpus, beyond)
        w == qcom_scm_set_boot_addr(virt_to_phys(entry), flags)
    IN /\ pc[t] = "idle"
       /\ wr[t].name = "none"
       /\ IF flags = 0
          THEN /\ wr' = [wr EXCEPT ![t] =
                           [NoWrapper EXCEPT !.name = "__qcom_scm_set_warm_boot_addr",
                                             !.x = << entry, cpus >>, !.kind = "warm",
                                             !.stage = 3, !.idx = cpus]]
               /\ pc' = [pc EXCEPT ![t] = "ret"]
               /\ UNCHANGED << args, resp_buf >>
          ELSE /\ wr' = [wr EXCEPT ![t] =
                           [NoWrapper EXCEPT !.name = "__qcom_scm_set_warm_boot_addr",
                                             !.x = << entry, cpus >>, !.kind = "warm",
                                             !.stage = 1, !.calls = 1, !.idx = cpus]]
               /\ args' = [args EXCEPT ![t] = WrapperArgs(w)]
               /\ resp_buf' = [resp_buf EXCEPT ![t] = w.resp_init]
               /\ pc' = [pc EXCEPT ![t] = "call"]
       /\ UNCHANGED << cmd, rsp, ret, r0, r1, r2, cnt, heap, qcom_scm_lock, version,
                       fw_version, fw_pending, fw_intr, ver_traps, ver_known, qcom_scm_wb,
                       cpu_present, clock >>

\* lines 460-461: the registry with entry recorded for the cpus of the mask
WbRecord(wb, entry, cpus) ==
    [c \in DOMAIN wb |-> IF c \in cpus THEN [wb[c] EXCEPT !.entry = entry] ELSE wb[c]]

\* a registry that is updated whatever the call returned
WbUpdatesAlways(r) == TRUE

\* is the registry to be updated after qcom_scm_set_boot_addr returned r?
WbUpdates(r) == r = 0

\* lines 459-464: qcom_scm_set_boot_addr has returned; a write past the end
\* of the array lands in the mutex defined behind it, or elsewhere
WarmBoot_exit(t) ==
    /\ pc[t] = "ret"
    /\ wr[t].kind = "warm"
    /\ wr[t].stage = 1
    /\ IF WbUpdates(ret[t])
       THEN /\ qcom_scm_wb' = WbRecord(qcom_scm_wb, wr[t].x[1], wr[t].x[2])
            /\ IF wr[t].x[2] \subseteq DOMAIN qcom_scm_wb
               THEN UNCHANGED qcom_scm_lock
               ELSE qcom_scm_lock' \in {qcom_scm_lock, Clobbered}
       ELSE UNCHANGED << qcom_scm_wb, qcom_scm_lock >>
    /\ wr' = [wr EXCEPT ![t].stage = 3, ![t].ret = ret[t]]
    /\ UNCHANGED << pc, locals, heap, version, fw_version, fw_pending, fw_intr,
                    ver_traps, ver_known, cpu_present, clock >>


(* ------------------- clk-regmap-mux-div.c: the clock ------------------ *)

\* lines 25-26: bits of the command register
CMD_RCGR_UPDATE == 1
CMD_RCGR_DIRTY_CFG == 16

\* line 53 (linux/errno.h)
EBUSY == 16

\* line 42: the number of polls of __mux_div_update_config
PollCount == 500

\* BIT(n) of linux/bitops.h
BIT(n) == Shl32(1, n)

\* x >> n for a register value
Shr32(x, n) == x \div Pow2(n)

\* a mult_frac that took the denominator for the numerator
mult_frac_swapped(x, numer, denom) == (x \div numer) * denom + ((x % numer) * denom) \div numer

\* mult_frac(x, numer, denom) of linux/kernel.h
mult_frac(x, numer, denom) == (x \div denom) * numer + ((x % denom) * numer) \div denom

\* a parent clock: the rate it runs at, and whether it can round to any
\* rate asked for (exact) or only to the rate it runs at
Parent(rate, exact) == [rate |-> rate, exact |-> exact]

\* clk_hw_get_rate(parent)
clk_hw_get_rate(parent) == parent.rate

\* clk_hw_round_rate(parent, rate)
clk_hw_round_rate(parent, rate) == IF parent.exact THEN rate ELSE parent.rate

\* clk_hw_get_num_parents(hw)
clk_hw_get_num_parents(m) == Len(m.parents)

\* regmap_update_bits(map, reg, mask, val) on the value old of the register
regmap_update_bits(old, mask, val) == BitOr(BitAnd(old, -1 - mask), BitAnd(val, mask))

\* what regmap_update_bits and regmap_read may return
RegmapRets == {0, -EIO}

\* lines 104-108
is_better_rate(req, best, new) == (req <= new /\ new < best) \/ (best < req /\ best < new)

\* lines 118-138: the loops of mux_div_determine_rate from parent i (counted
\* from 0) and divider div on, with req as filled in so far; div of the
\* result is the loop variable at the last assignment of best_rate
RECURSIVE DetermineLoop(_, _, _, _, _)
DetermineLoop(m, req_rate, i, div, req) ==
    IF ~(i < clk_hw_get_num_parents(m)) THEN req
    ELSE IF ~(div < BIT(m.hid_width) - 1) THEN DetermineLoop(m, req_rate, i + 1, 1, req)
    ELSE LET parent == m.parents[i + 1]
             parent_rate == clk_hw_round_rate(parent, mult_frac(req_rate, div, 2))
             actual_rate == mult_frac(parent_rate, 2, div)
             new == IF is_better_rate(req_rate, req.best_rate, actual_rate)
                    THEN [best_rate |-> actual_rate, rate |-> actual_rate,
                          best_parent_rate |-> parent_rate, best_parent_hw |-> i,
                          div |-> div]
                    ELSE req
         IN IF actual_rate < req_rate \/ new.best_rate <= req_rate
            THEN DetermineLoop(m, req_rate, i + 1, 1, new)
            ELSE DetermineLoop(m, req_rate, i, div + 1, new)

\* no parent: the value of best_parent_hw and of a parent index before the search
NoParent == -1

\* lines 110-144: mux_div_determine_rate on a request for req_rate
mux_div_determine_rate(m, req_rate) ==
    LET req == DetermineLoop(m, req_rate, 0, 1,
                   [best_rate |-> 0, rate |-> req_rate,
                    best_parent_rate |-> 0, best_parent_hw |-> NoParent, div |-> 0])
    IN [ret |-> IF req.best_rate = 0 THEN -EINVAL ELSE 0, rate |-> req.rate,
        best_parent_rate |-> req.best_parent_rate, best_parent_hw |-> req.best_parent_hw,
        div |-> req.div]

\* lines 154-173: the loops of __mux_div_set_rate_and_parent; i and div of
\* the result are the loop variables at the last assignment of best_rate
RECURSIVE SetRateLoop(_, _, _, _, _)
SetRateLoop(m, rate, i, div, best) ==
    IF ~(i < clk_hw_get_num_parents(m)) THEN best
    ELSE IF ~(div < BIT(m.hid_width) - 1) THEN SetRateLoop(m, rate, i + 1, 1, best)
    ELSE LET parent == m.parents[i + 1]
             parent_rate == clk_hw_round_rate(parent, mult_frac(rate, div, 2))
             actual_rate == mult_frac(parent_rate, 2, div)
             new == IF is_better_rate(rate, best.best_rate, actual_rate)
                    THEN [best_rate |-> actual_rate, best_src |-> m.parent_map[i + 1],
                          best_div |-> div - 1, i |-> i, div |-> div,
                          asked |-> mult_frac(rate, div, 2)]
                    ELSE best
         IN IF actual_rate < rate \/ new.best_rate <= rate
            THEN SetRateLoop(m, rate, i + 1, 1, new)
            ELSE SetRateLoop(m, rate, i, div + 1, new)

\* lines 151-173: the winner of the search of __mux_div_set_rate_and_parent
SetRateSearch(m, rate) ==
    SetRateLoop(m, rate, 0, 1, [best_rate |-> 0, best_src |-> 0, best_div |-> 0,
                                i |-> NoParent, div |-> 0, asked |-> 0])

\* a value with the two shifts exchanged
SrcDivValSwapped(m, src_sel, src_div) ==
    BitOr(Shl32(src_div, m.src_shift), Shl32(src_sel, m.hid_shift))

\* lines 62-64: the value and the mask __mux_div_set_src_div writes
SrcDivVal(m, src_sel, src_div) ==
    BitOr(Shl32(src_div, m.hid_shift), Shl32(src_sel, m.src_shift))

SrcDivMask(m) ==
    BitOr(Shl32(BIT(m.hid_width) - 1, m.hid_shift),
          Shl32(BIT(m.src_width) - 1, m.src_shift))

\* lines 87-94: the fields __mux_div_get_src_div takes from the value val of
\* the configuration register
SrcDivFields(m, val) ==
    [src |-> BitAnd(Shr32(val, m.src_shift), BIT(m.src_width) - 1),
     div |-> BitAnd(Shr32(val, m.hid_shift), BIT(m.hid_width) - 1)]

\* lines 74-95: __mux_div_get_src_div; stack is what the caller's
\* uninitialized src and div hold, which a pending configuration leaves there
__mux_div_get_src_div(m, r, stack) ==
    IF BitAnd(r.cmd, CMD_RCGR_DIRTY_CFG) # 0 THEN stack ELSE SrcDivFields(m, r.cfg)

\* the index (from 0) of the first parent whose cfg is src, or NoParent
ParentOf(m, src) ==
    IF \E i \in 1..Len(m.parent_map) : m.parent_map[i] = src
    THEN (CHOOSE i \in 1..Len(m.parent_map) :
            /\ m.parent_map[i] = src
            /\ \A j \in 1..(i - 1) : m.parent_map[j] # src) - 1
    ELSE NoParent

\* lines 184-198: mux_div_get_parent
mux_div_get_parent(m, r, stack) ==
    LET p == ParentOf(m, __mux_div_get_src_div(m, r, stack).src)
    IN IF p # NoParent THEN p ELSE 0

\* lines 224-242: mux_div_recalc_rate
mux_div_recalc_rate(m, r, stack) ==
    LET sd == __mux_div_get_src_div(m, r, stack)
        p == ParentOf(m, sd.src)
    IN IF p # NoParent
       THEN mult_frac(clk_hw_get_rate(m.parents[p + 1]), 2, sd.div + 1)
       ELSE 0


\* everything but the clock
firmware == << pc, args, cmd, rsp, ret, resp_buf, r0, r1, r2, cnt, heap, qcom_scm_lock,
               version, fw_version, fw_pending, fw_intr, ver_traps, ver_known,
               wr, qcom_scm_wb, cpu_present >>

\* no clock operation running and none returned yet
ClkIdle ==
    [pc |-> "idle", op |-> "none", count |-> 0, ret |-> 0, req |-> 0,
     best_src |-> 0, best_div |-> 0, i |-> NoParent, div |-> 0, asked |-> 0,
     rate |-> 0, best_parent_rate |-> 0, parent |-> NoParent, src_sel |-> 0]

\* a return that stores the programmed pair in md whatever the operation
ClkReturnStores(c, r) ==
    /\ clk_op' = [c EXCEPT !.pc = "idle", !.count = 0, !.ret = r]
    /\ md' = IF r = 0 THEN [md EXCEPT !.div = c.best_div, !.src_sel = c.best_src] ELSE md

\* lines 176-181 and the return statements of lines 101, 204, 212, 220: the
\* running operation returns r; __mux_div_set_rate_and_parent stores its
\* winner in md when r is 0
ClkReturn(c, r) ==
    /\ clk_op' = [c EXCEPT !.pc = "idle", !.count = 0, !.ret = r]
    /\ md' = IF r = 0 /\ c.op \in {"set_rate", "set_rate_and_parent"}
             THEN [md EXCEPT !.div = c.best_div, !.src_sel = c.best_src]
             ELSE md

\* lines 62-71 and 36-39: __mux_div_set_src_div(md, c.best_src, c.best_div)
\* up to the first poll; rc and ru are what the two regmap_update_bits return
SetSrcDiv(c, rc, ru) ==
    IF rc # 0
    THEN ClkReturn(c, rc) /\ UNCHANGED regmap
    ELSE LET cfg == regmap_update_bits(regmap.cfg, SrcDivMask(md),
                                       SrcDivVal(md, c.best_src, c.best_div))
         IN IF ru # 0
            THEN ClkReturn(c, ru) /\ regmap' = [regmap EXCEPT !.cfg = cfg]
            ELSE /\ regmap' = [cfg |-> cfg,
                               cmd |-> regmap_update_bits(regmap.cmd, CMD_RCGR_UPDATE,
                                                          CMD_RCGR_UPDATE)]
                 /\ clk_op' = [c EXCEPT !.pc = "poll", !.count = PollCount]
                 /\ UNCHANGED md

\* lines 97-102: mux_div_enable
Clk_enable(rc, ru) ==
    /\ clk_op.pc = "idle"
    /\ SetSrcDiv([ClkIdle EXCEPT !.op = "enable", !.best_src = md.src_sel,
                                 !.best_div = md.div], rc, ru)
    /\ UNCHANGED firmware

\* lines 200-205: mux_div_set_parent
Clk_set_parent(index, rc, ru) ==
    /\ clk_op.pc = "idle"
    /\ SetSrcDiv([ClkIdle EXCEPT !.op = "set_parent",
                                 !.best_src = md.parent_map[index + 1],
                                 !.best_div = md.div], rc, ru)
    /\ UNCHANGED firmware

\* a rate change that programs the source its caller passed
SetRateAndParentGiven(op, rate, src_sel, rc, ru) ==
    LET best == SetRateSearch(md, rate)
    IN SetSrcDiv([ClkIdle EXCEPT !.op = op, !.req = rate, !.best_src = src_sel,
                                 !.best_div = best.best_div, !.i = best.i,
                                 !.div = best.div, !.asked = best.asked,
                                 !.rate = best.best_rate, !.src_sel = src_sel], rc, ru)

\* lines 146-175: __mux_div_set_rate_and_parent(hw, rate, prate, src_sel) up
\* to the first poll
SetRateAndParent(op, rate, src_sel, rc, ru) ==
    LET best == SetRateSearch(md, rate)
    IN SetSrcDiv([ClkIdle EXCEPT !.op = op, !.req = rate, !.best_src = best.best_src,
                                 !.best_div = best.best_div, !.i = best.i,
                                 !.div = best.div, !.asked = best.asked,
                                 !.rate = best.best_rate, !.src_sel = src_sel], rc, ru)

\* lines 207-213: mux_div_set_rate
Clk_set_rate(rate, rc, ru) ==
    /\ clk_op.pc = "idle"
    /\ SetRateAndParent("set_rate", rate, md.src_sel, rc, ru)
    /\ UNCHANGED firmware

\* lines 215-222: mux_div_set_rate_and_parent
Clk_set_rate_and_parent(rate, index, rc, ru) ==
    /\ clk_op.pc = "idle"
    /\ index + 1 \in DOMAIN md.parent_map
    /\ SetRateAndParent("set_rate_and_parent", rate, md.parent_map[index + 1], rc, ru)
    /\ UNCHANGED firmware

\* a loop that gives up one poll early
PollOffByOne(val, rr, count) ==
    IF rr # 0 THEN [done |-> TRUE, ret |-> rr, count |-> count]
    ELSE IF BitAnd(val, CMD_RCGR_UPDATE) = 0 THEN [done |-> TRUE, ret |-> 0, count |-> count]
    ELSE IF count - 1 > 1 THEN [done |-> FALSE, ret |-> 0, count |-> count - 1]
    ELSE [done |-> TRUE, ret |-> -EBUSY, count |-> count - 1]

\* lines 42-53: one turn of the loop of __mux_div_update_config, val and rr
\* being what regmap_read reads and returns
PollStep(val, rr, count) ==
    IF rr # 0 THEN [done |-> TRUE, ret |-> rr, count |-> count]
    ELSE IF BitAnd(val, CMD_RCGR_UPDATE) = 0 THEN [done |-> TRUE, ret |-> 0, count |-> count]
    ELSE IF count - 1 > 0 THEN [done |-> FALSE, ret |-> 0, count |-> count - 1]
    ELSE [done |-> TRUE, ret |-> -EBUSY, count |-> count - 1]

\* lines 42-53, then the return of the operation
Clk_poll(rr) ==
    /\ clk_op.pc = "poll"
    /\ LET p == PollStep(regmap.cmd, rr, clk_op.count)
       IN IF p.done
          THEN ClkReturn(clk_op, p.ret)
          ELSE clk_op' = [clk_op EXCEPT !.count = p.count] /\ UNCHANGED md
    /\ UNCHANGED << regmap, firmware >>

\* lines 110-144: mux_div_determine_rate
Clk_determine_rate(rate) ==
    /\ clk_op.pc = "idle"
    /\ LET req == mux_div_determine_rate(md, rate)
       IN clk_op' = [ClkIdle EXCEPT !.op = "determine_rate", !.ret = req.ret,
                                    !.rate = req.rate,
                                    !.best_parent_rate = req.best_parent_rate,
                                    !.parent = req.best_parent_hw, !.req = rate]
    /\ UNCHANGED << md, regmap, firmware >>

\* what the uninitialized locals src and div of a caller may hold
Stacks(m) == { [src |-> s, div |-> d] : s \in {m.parent_map[1], BIT(m.src_width) - 1},
                                        d \in {0, 1} }

\* lines 184-198: mux_div_get_parent
Clk_get_parent(stack) ==
    /\ clk_op.pc = "idle"
    /\ clk_op' = [ClkIdle EXCEPT !.op = "get_parent",
                                 !.parent = mux_div_get_parent(md, regmap, stack)]
    /\ UNCHANGED << md, regmap, firmware >>

\* lines 224-242: mux_div_recalc_rate
Clk_recalc_rate(stack) ==
    /\ clk_op.pc = "idle"
    /\ clk_op' = [ClkIdle EXCEPT !.op = "recalc_rate",
                                 !.rate = mux_div_recalc_rate(md, regmap, stack)]
    /\ UNCHANGED << md, regmap, firmware >>

\* DIV_ROUND_UP
DIV_ROUND_UP(n, d) == (n + d - 1) \div d

\* lines 270-271: divider_get_val(rate, parent_rate, NULL, width,
\* CLK_DIVIDER_ROUND_CLOSEST) of the clock framework: the divider that
\* brings parent_rate down to rate, rounded up, less one, no larger than the
\* field of that width holds; the unsigned -1 of a parent rate of 0 is larger
divider_get_val(rate, parent_rate, width) ==
    LET value == DIV_ROUND_UP(parent_rate, rate) - 1
    IN IF value < 0 \/ value > BIT(width) - 1 THEN BIT(width) - 1 ELSE value

\* lines 253-257: the index (from 0) mux_div_get_safe_parent stops at; the
\* number of parents when no parent has safe_src as its cfg
mux_div_get_safe_parent(m) ==
    IF ParentOf(m, m.safe_src) = NoParent THEN clk_hw_get_num_parents(m)
    ELSE ParentOf(m, m.safe_src)

\* line 266: no safe rate or no safe source
SafeUnset(m) == m.safe_freq = 0 \/ m.safe_src = 0

\* lines 260-275: mux_div_disable up to the first poll; what
\* __mux_div_set_src_div returns is dropped by the caller and kept in ret
Clk_disable(rc, ru) ==
    /\ clk_op.pc = "idle"
    /\ IF SafeUnset(md)
       THEN /\ clk_op' = [ClkIdle EXCEPT !.op = "disable"]
            /\ UNCHANGED << md, regmap >>
       ELSE LET parent == md.parents[mux_div_get_safe_parent(md) + 1]
                div == divider_get_val(md.safe_freq, clk_hw_get_rate(parent), md.hid_width)
            IN SetSrcDiv([ClkIdle EXCEPT !.op = "disable", !.best_src = md.safe_src,
                                         !.best_div = 2 * div + 1], rc, ru)
    /\ UNCHANGED firmware

\* the clock controller takes the configuration over: the update bit and
\* the dirty bit go off
Hw_update ==
    /\ BitAnd(regmap.cmd, CMD_RCGR_UPDATE) # 0
    /\ regmap' = [regmap EXCEPT !.cmd = 0]
    /\ UNCHANGED << md, clk_op, firmware >>

\* the clock controller flags a configuration that is written and not taken over
Hw_dirty ==
    /\ BitAnd(regmap.cmd, CMD_RCGR_DIRTY_CFG) = 0
    /\ regmap' = [regmap EXCEPT !.cmd = BitOr(@, CMD_RCGR_DIRTY_CFG)]
    /\ UNCHANGED << md, clk_op, firmware >>

\* a clock with a three-bit divider on two parents of fixed rates, and one
\* with a two-bit divider on a parent that rounds to any rate
ClkConfigs ==
    { [hid_width |-> 3, hid_shift |-> 0, src_width |-> 2, src_shift |-> 8,
       parent_map |-> << 1, 2 >>,
       parents |-> << Parent(MaxRate - 1, FALSE), Parent(MaxRate, FALSE) >>,
       src_sel |-> 1, div |-> 1, safe_src |-> 0, safe_freq |-> 0],
      [hid_width |-> 2, hid_shift |-> 0, src_width |-> 2, src_shift |-> 8,
       parent_map |-> << 0 >>,
       parents |-> << Parent(MaxRate, TRUE) >>,
       src_sel |-> 0, div |-> 1, safe_src |-> 0, safe_freq |-> 0] }

\* the rates asked for
Rates == 1..MaxRate

\* clocks whose one or two parents round to any rate
RateConfigs ==
    { [hid_width |-> w, hid_shift |-> 0, src_width |-> 2, src_shift |-> 8,
       parent_map |-> [i \in 1..n |-> i - 1],
       parents |-> [i \in 1..n |-> Parent(MaxRate, TRUE)],
       src_sel |-> 0, div |-> 1, safe_src |-> 0, safe_freq |-> 0] : w \in 2..3, n \in 1..2 }

\* clocks on two parents of fixed rates with and without a safe source and
\* a safe rate; a safe source is the cfg of one of the parents
SafeConfigs ==
    { [hid_width |-> w, hid_shift |-> 0, src_width |-> 2, src_shift |-> 8,
       parent_map |-> << 1, 2 >>,
       parents |-> << Parent(MaxRate - 1, FALSE), Parent(MaxRate, FALSE) >>,
       src_sel |-> 1, div |-> 1, safe_src |-> s, safe_freq |-> f] :
      w \in 2..3, s \in {0, 2}, f \in {0, 1} }

\* the rate of a 19.2 MHz crystal
XoRate == 192 * 100000

\* the rates asked of these clocks
RateInputs == Rates \cup {XoRate}

(* --------------------------- specification ----------------------------- *)

InitFirmware ==
    /\ pc = [t \in Threads |-> "idle"]
    /\ args = [t \in Threads |-> NoArgs]
    /\ cmd = [t \in Threads |-> NULL]
    /\ rsp = [t \in Threads |-> 0]
    /\ ret = [t \in Threads |-> 0]
    /\ resp_buf = [t \in Threads |-> << >>]
    /\ r0 = [t \in Threads |-> 0]
    /\ r1 = [t \in Threads |-> 0]
    /\ r2 = [t \in Threads |-> 0]
    /\ cnt = [t \in Threads |-> NoCount]
    /\ heap = [s \in Slots |-> NoBuf]
    /\ qcom_scm_lock = 0
    /\ version = VersionUnset
    /\ fw_version \in FwVersions
    /\ fw_pending = {}
    /\ fw_intr = [t \in Threads |-> 0]
    /\ ver_traps = 0
    /\ ver_known = NoVersion
    /\ wr = [t \in Threads |-> NoWrapper]
    /\ qcom_scm_wb = qcom_scm_wb_init
    /\ cpu_present = 0..MaxCpu

\* the clock as registered: nothing written, nothing running
ClkStart(m) ==
    /\ md = m
    /\ regmap = [cmd |-> 0, cfg |-> 0]
    /\ clk_op = ClkIdle

Init == InitFirmware /\ ClkStart(CHOOSE m \in ClkConfigs : m.hid_width = 3)

\* the steps of qcom_scm_call, against a monitor with the given answers
CallStep(t, answers) ==
    \/ Call_alloc(t)
    \/ Call_lock(t)
    \/ Call_flush(t)
    \/ Call_smc(t, answers)
    \/ Call_unlock(t)
    \/ Call_check(t)
    \/ Call_inv_hdr(t)
    \/ Call_poll(t)
    \/ Call_inv_full(t)
    \/ Call_copy(t)
    \/ Call_out(t)

\* the steps of qcom_scm_get_version and qcom_scm_call_atomic1
OtherStep(t) ==
    \/ Version_check(t)
    \/ Version_lock(t)
    \/ Version_smc(t)
    \/ Version_unlock(t)
    \/ \E a \in AtomicArgs : Atomic_trap(t, a)
    \/ Atomic_return(t)

\* the monitor and the cache act on their own
Environment(words) ==
    \/ \E p \in fw_pending : FwComplete(p, words)
    \/ \E s \in Slots : \E l \in 0..1 : Prefetch(s, l)

\* Spec: every thread calls qcom_scm_call, qcom_scm_get_version and
\* qcom_scm_call_atomic1 as it likes
Next ==
    \/ \E t \in Threads :
         \/ \E a \in FewCallArgs : Call_enter(t, a)
         \/ CallStep(t, FwFewAnswers)
         \/ OtherStep(t)
         \/ Return(t)
    \/ Environment(FwOneWord)

Spec == Init /\ [][Next]_vars

\* SpecCall: one thread calls qcom_scm_call with every kind of argument,
\* against a monitor with every answer
NextCall ==
    \/ \E a \in CallArgs : Call_enter(1, a)
    \/ CallStep(1, FwCallAnswers)
    \/ Return(1)
    \/ Environment(FwWords)

SpecCall == Init /\ [][NextCall]_vars

\* SpecW: one thread calls the service wrappers, against a monitor with
\* every answer
NextW ==
    \/ \E i \in WrapperInputs : \E s \in StackResidue : Wrapper_enter(1, i[1], i[2], s)
    \/ \E e \in Entries : \E h \in BOOLEAN : \E m \in (IF h THEN CpuMasks ELSE {{}}) :
         ColdBoot_enter(1, e, h, m)
    \/ CallStep(1, FwCallAnswers)
    \/ Wrapper_next(1)
    \/ Wrapper_done(1)
    \/ Environment(FwWords)

SpecW == Init /\ [][NextW]_vars

\* SpecBoot: one thread sets warm boot addresses, one call after the other;
\* the monitor completes what it accepted
InitBoot == Init /\ fw_version = 65538

NextBoot ==
    \/ \E e \in Entries : \E m \in CpuMasks : \E b \in Beyond : WarmBoot_enter(1, e, m, b)
    \/ WarmBoot_exit(1)
    \/ CallStep(1, FwFewAnswers)
    \/ Wrapper_done(1)
    \/ \E p \in fw_pending : FwComplete(p, FwOneWord)

SpecBoot == InitBoot /\ [][NextBoot]_vars

\* the payload sizes tried: small ones, and those that bring the length to
\* one byte below, onto and one byte above a page
AllocSizes ==
    (0..MaxPayload) \cup { PAGE_SIZE - SizeofCommand - SizeofResponse + d : d \in {-1, 0, 1} }

\* lines 127-142: a caller gets a command from alloc_qcom_scm_command, or
\* NULL when kzalloc fails
Alloc_new(t, cmd_size, resp_size, residue, ok) ==
    /\ pc[t] = "idle" /\ wr[t].name = "none" /\ cmd[t] = NULL
    /\ IF ok
       THEN /\ heap' = [heap EXCEPT ![FreeSlot] =
                          alloc_qcom_scm_command(t, cmd_size, resp_size, residue)]
            /\ cmd' = [cmd EXCEPT ![t] = SlotAddr(FreeSlot)]
            /\ args' = [args EXCEPT ![t] =
                          [NoArgs EXCEPT !.fn = "alloc_qcom_scm_command",
                                         !.cmd_len = cmd_size, !.resp_len = resp_size]]
       ELSE UNCHANGED << heap, cmd, args >>
    /\ UNCHANGED << pc, rsp, ret, resp_buf, r0, r1, r2, cnt, qcom_scm_lock, version,
                    fw_version, fw_pending, fw_intr, ver_traps, ver_known, outer >>

\* lines 150-153: free_qcom_scm_command
Alloc_free(t) ==
    /\ pc[t] = "idle" /\ args[t].fn = "alloc_qcom_scm_command" /\ cmd[t] # NULL
    /\ heap' = kfree(cmd[t])
    /\ cmd' = [cmd EXCEPT ![t] = NULL]
    /\ args' = [args EXCEPT ![t] = NoArgs]
    /\ UNCHANGED << pc, rsp, ret, resp_buf, r0, r1, r2, cnt, qcom_scm_lock, version,
                    fw_version, fw_pending, fw_intr, ver_traps, ver_known, outer >>

NextAlloc ==
    \/ \E c \in AllocSizes : \E r \in 0..MaxPayload : \E residue \in Residue : \E ok \in BOOLEAN :
         Alloc_new(1, c, r, residue, ok)
    \/ Alloc_free(1)

SpecAlloc == InitBoot /\ [][NextAlloc]_vars

\* the clock with either configuration, nothing else running
InitClk == InitFirmware /\ fw_version = VersionUnset /\ \E m \in ClkConfigs : ClkStart(m)

\* the clock operations, one at a time as the clock framework calls them,
\* and the clock controller
NextClk ==
    \/ \E rc \in RegmapRets : \E ru \in RegmapRets : Clk_enable(rc, ru)
    \/ \E index \in 0..(Len(md.parent_map) - 1) : \E rc \in RegmapRets : \E ru \in RegmapRets :
         Clk_set_parent(index, rc, ru)
    \/ \E rate \in Rates : \E rc \in RegmapRets : \E ru \in RegmapRets :
         Clk_set_rate(rate, rc, ru)
    \/ \E rate \in Rates : \E index \in 0..(Len(md.parent_map) - 1) :
       \E rc \in RegmapRets : \E ru \in RegmapRets :
         Clk_set_rate_and_parent(rate, index, rc, ru)
    \/ \E rr \in RegmapRets : Clk_poll(rr)
    \/ \E rate \in Rates : Clk_determine_rate(rate)
    \/ \E stack \in Stacks(md) : Clk_get_parent(stack)
    \/ \E stack \in Stacks(md) : Clk_recalc_rate(stack)
    \/ Hw_update
    \/ Hw_dirty

SpecClk == InitClk /\ [][NextClk]_vars

\* the rate search on parents that round to any rate
InitRate == InitFirmware /\ fw_version = VersionUnset /\ \E m \in RateConfigs : ClkStart(m)

NextRate ==
    \/ \E rate \in RateInputs : Clk_determine_rate(rate)
    \/ \E rate \in RateInputs : Clk_set_rate(rate, 0, 0)
    \/ Clk_poll(0)
    \/ Hw_update

SpecRate == InitRate /\ [][NextRate]_vars

\* a clock that is enabled, set to a rate and disabled
InitSafe == InitFirmware /\ fw_version = VersionUnset /\ \E m \in SafeConfigs : ClkStart(m)

NextSafe ==
    \/ \E rc \in RegmapRets : \E ru \in RegmapRets : Clk_disable(rc, ru)
    \/ \E rc \in RegmapRets : \E ru \in RegmapRets : Clk_enable(rc, ru)
    \/ \E rate \in {1, MaxRate} : Clk_set_rate(rate, 0, 0)
    \/ \E rr \in RegmapRets : Clk_poll(rr)
    \/ Hw_update

SpecSafe == InitSafe /\ [][NextSafe]_vars


\* SpecCall with the scheduling the kernel and the monitor give: a running
\* thread goes on running, and the monitor completes what it accepted (its
\* "interrupted" answers are bounded by MaxInterrupted)
LiveCall ==
    /\ SpecCall
    /\ WF_vars(CallStep(1, FwCallAnswers))
    /\ WF_vars(\E p \in fw_pending : FwComplete(p, FwWords))

(* ------------------------------ claims --------------------------------- *)

\* thread t is inside the section guarded by qcom_scm_lock
InLocked(t) == pc[t] \in {"flush", "smc", "unlock", "v_smc", "v_unlock"}

\* thread t is inside qcom_scm_call and owns a command buffer
HasCommand(t) ==
    pc[t] \in {"lock", "flush", "smc", "unlock", "check", "inv_hdr", "poll",
               "inv_full", "copy", "out"}

\* C1: at most one thread is inside the section guarded by qcom_scm_lock
\* (flush, trap and its retries, of qcom_scm_call and qcom_scm_get_version
\* alike), that thread holds the lock, and every call works on the command
\* buffer it allocated itself: the buffers of two calls are distinct, and
\* the address given to the trap is that of the caller's own buffer.
C1_MutualExclusion ==
    /\ \A t, u \in Threads : InLocked(t) /\ InLocked(u) => t = u
    /\ \A t \in Threads : InLocked(t) => qcom_scm_lock = t
    /\ \A t \in Threads : HasCommand(t) => BufAt(cmd[t]).owner = t
    /\ \A t, u \in Threads : HasCommand(t) /\ HasCommand(u) /\ t # u => cmd[t] # cmd[u]
    /\ \A t \in Threads :
         pc[t] = "smc" => SlotOfPhys(r2[t]) # 0 /\ heap[SlotOfPhys(r2[t])].owner = t

\* C1 witness: one thread is in the trap while another waits for the lock
\* with its own command ready
C1_Witness ==
    \E t, u \in Threads : pc[t] = "smc" /\ pc[u] = "lock" /\ qcom_scm_lock = t

\* C2: when the trap is issued, physical memory holds the caller's request
\* bytes at the command's buf_offset and (svc_id << 10) | cmd_id as the id;
\* after a call that returns 0 the caller's response buffer holds the bytes
\* physical memory holds at response header + response.buf_offset, the
\* completion flag being set.
C2_PayloadIntegrity ==
    \A t \in Threads :
      LET b == BufAt(cmd[t])
          a == args[t]
          hdr == FwReadLE32(b, OffCmdRespHdrOffset)
      IN /\ pc[t] = "smc" /\ a.has_cmd =>
              /\ FwRead(b, FwReadLE32(b, OffCmdBufOffset), a.cmd_len) = a.cmd_buf
              /\ FwReadLE32(b, OffCmdId) = a.svc * 1024 + a.cmd
         /\ pc[t] = "out" /\ ret[t] = 0 /\ a.has_resp =>
              /\ FwReadLE32(b, hdr + OffRspIsComplete) # 0
              /\ resp_buf[t] = FwRead(b, hdr + FwReadLE32(b, hdr + OffRspBufOffset), a.resp_len)

\* C2 witness: a call is about to return 0 with the monitor's word 1 copied out
C2_Witness ==
    \E t \in Threads :
      /\ pc[t] = "out" /\ ret[t] = 0 /\ args[t].has_resp /\ args[t].has_cmd
      /\ resp_buf[t] = << 1, 0, 0, 0 >>

\* thread t is in qcom_scm_call past the trap loop: r0[t] is the final answer
TrapDone(t) ==
    /\ args[t].fn = "call"
    /\ cnt[t].trap = 1
    /\ pc[t] \in {"unlock", "check", "inv_hdr", "poll", "inv_full", "copy", "out", "ret"}

\* C3: a negative final answer of the monitor comes back translated: no-memory
\* as -ENOMEM, not-supported as -EOPNOTSUPP, invalid-address and
\* invalid-argument as -EINVAL, generic-error as -EIO, each different from
\* the raw code; the answer 0 comes back as 0.
C3_ErrorTranslation ==
    \A t \in Threads :
      TrapDone(t) =>
        /\ r0[t] = QCOM_SCM_ENOMEM => ret[t] = -ENOMEM
        /\ r0[t] = QCOM_SCM_EOPNOTSUPP => ret[t] = -EOPNOTSUPP
        /\ r0[t] = QCOM_SCM_EINVAL_ADDR => ret[t] = -EINVAL
        /\ r0[t] = QCOM_SCM_EINVAL_ARG => ret[t] = -EINVAL
        /\ r0[t] = QCOM_SCM_ERROR => ret[t] = -EIO
        /\ r0[t] \in {QCOM_SCM_ENOMEM, QCOM_SCM_EOPNOTSUPP, QCOM_SCM_EINVAL_ADDR,
                      QCOM_SCM_EINVAL_ARG, QCOM_SCM_ERROR} => ret[t] # r0[t]
        /\ r0[t] < 0 => ret[t] < 0
        /\ r0[t] = 0 => ret[t] = 0

\* C3 witness: the monitor answered "invalid address" and the call returns -EINVAL
C3_Witness ==
    \E t \in Threads :
      pc[t] = "ret" /\ TrapDone(t) /\ r0[t] = QCOM_SCM_EINVAL_ADDR /\ ret[t] = -EINVAL

\* C4 (states): in the trap loop the thread holds the lock, the address
\* register holds its command's physical address and the buffer was flushed
\* once; past the loop neither r0 nor the call's result is "interrupted".
C4_LoopInvariant ==
    \A t \in Threads :
      /\ pc[t] = "smc" =>
           /\ qcom_scm_lock = t
           /\ r2[t] = virt_to_phys(cmd[t])
           /\ cnt[t].flush = 1
      /\ TrapDone(t) => r0[t] # QCOM_SCM_INTERRUPTED /\ ret[t] # QCOM_SCM_INTERRUPTED

\* C4 (steps): a trap answered "interrupted" leaves the thread in the loop,
\* with the same address, the lock still held, nothing flushed again and the
\* buffer untouched, however many times it happened before
C4_RetryStep ==
    \A t \in Threads :
      pc[t] = "smc" /\ r0'[t] = QCOM_SCM_INTERRUPTED =>
        /\ pc'[t] = "smc"
        /\ r2'[t] = r2[t]
        /\ qcom_scm_lock' = t
        /\ cnt'[t].flush = cnt[t].flush
        /\ heap'[SlotOfVirt(cmd[t])] = heap[SlotOfVirt(cmd[t])]

\* C4: every "interrupted" answer makes smc trap again with the same command
\* address, under the lock and without another flush; smc returns, and
\* qcom_scm_call returns, only values other than "interrupted".
C4_InterruptedRetry == [](C4_LoopInvariant) /\ [][C4_RetryStep]_vars

\* C4 witness: the monitor has answered "interrupted", the thread is about to
\* trap again while another thread waits for the lock
C4_Witness ==
    \E t, u \in Threads :
      pc[t] = "smc" /\ fw_intr[t] >= 1 /\ cnt[t].trap = 1 /\ pc[u] = "lock"

\* C5: when the trap fails (a non-zero result), qcom_scm_call goes straight
\* to the release of the command and returns that result: it never reads
\* the completion flag, invalidates nothing, copies nothing, and the
\* caller's response buffer is as it was.
C5_TrapFailure ==
    \A t \in Threads :
      TrapDone(t) /\ r0[t] # 0 =>
        /\ pc[t] \in {"unlock", "check", "out", "ret"}
        /\ ret[t] # 0
        /\ ret[t] = (IF r0[t] < 0 THEN qcom_scm_remap_error(r0[t]) ELSE r0[t])
        /\ cnt[t].poll = 0 /\ cnt[t].inv = 0 /\ cnt[t].copy = 0
        /\ resp_buf[t] = FreshResp(args[t])
        /\ pc[t] = "ret" => cnt[t].free = 1 /\ BufAt(cmd[t]) = NoBuf

\* C5 witness: a failed call has returned, its buffer released
C5_Witness ==
    \E t \in Threads :
      /\ pc[t] = "ret" /\ TrapDone(t) /\ ret[t] = -EOPNOTSUPP /\ args[t].has_resp
      /\ cnt[t].free = 1

\* the completion flag of t's command as physical memory holds it
FlagInMemory(t) ==
    FwReadLE32(BufAt(cmd[t]), rsp[t] + OffRspIsComplete)

\* C6 (steps): while the monitor has not set is_complete, a polling call stays
\* in the poll loop and its command buffer stays allocated
C6_StalledStep ==
    \A t \in Threads :
      pc[t] \in {"inv_hdr", "poll"} /\ FlagInMemory(t)' = 0 =>
        /\ pc'[t] \in {"inv_hdr", "poll"}
        /\ BufAt(cmd[t])' # NoBuf

\* C6: with a monitor that stops answering "interrupted" and sets is_complete
\* for what it accepted, every qcom_scm_call returns; and as long as
\* is_complete is not set the call neither returns nor releases its buffer.
C6_PollTermination ==
    /\ \A t \in Threads : (pc[t] = "call") ~> (pc[t] = "ret")
    /\ [][C6_StalledStep]_vars

\* C6 witness: a call has polled, found the flag clear, and polls again while
\* the monitor still owes the response
C6_Witness ==
    \E t \in Threads :
      pc[t] = "poll" /\ cnt[t].poll = 1 /\ FlagInMemory(t) = 0 /\ r2[t] \in fw_pending

\* C7: an atomic call takes no lock, no command buffer, flushes nothing,
\* never traps twice and polls nothing; it can trap whenever its thread is
\* free and return whenever it is in the monitor, whoever holds the lock
\* and whoever else is in the monitor.
C7_AtomicBypass ==
    \A t \in Threads :
      /\ pc[t] = "idle" => ENABLED (\E a \in AtomicArgs : Atomic_trap(t, a))
      /\ pc[t] = "a_smc" => ENABLED Atomic_return(t)
      /\ args[t].fn = "atomic" =>
           /\ pc[t] \in {"a_smc", "ret"}
           /\ qcom_scm_lock # t
           /\ cmd[t] = NULL
           /\ cnt[t] = [NoCount EXCEPT !.trap = 1]
           /\ pc[t] = "ret" => ret[t] = r0[t]

\* C7 witness: a thread is in the monitor for an atomic call while another
\* holds the lock in the buffered trap
C7_Witness ==
    \E t, u \in Threads : pc[t] = "a_smc" /\ pc[u] = "smc" /\ qcom_scm_lock = u

\* a wrapper of thread t has returned after calling qcom_scm_call
WrapperReturned(t) == wr[t].stage = 3 /\ wr[t].calls > 0

\* the return value r of qcom_scm_call is a transport-level error
TransportError(r) == r < 0

\* C8 as the specification states it: whenever qcom_scm_call returned a
\* transport-level error to a wrapper, the wrapper returns exactly that value.
C8_PropagatesUnchanged ==
    \A t \in Threads :
      WrapperReturned(t) /\ TransportError(ret[t]) => wr[t].ret = ret[t]

\* what the wrapper called name returns when qcom_scm_call failed with r
C8_ErrorReturn(name, r) ==
    CASE name = "__qcom_scm_iommu_secure_map" -> -EINVAL
      [] name \in {"__qcom_scm_pas_supported", "__qcom_scm_get_feat_version"} -> 0
      [] OTHER -> r

\* C8, amended: whenever qcom_scm_call returned a transport-level error to a
\* wrapper, the wrapper returns exactly that value, except that
\* __qcom_scm_iommu_secure_map returns -EINVAL whatever the error was, and
\* __qcom_scm_pas_supported and __qcom_scm_get_feat_version return 0.
C8_Propagation ==
    \A t \in Threads :
      WrapperReturned(t) /\ TransportError(ret[t]) =>
        wr[t].ret = C8_ErrorReturn(wr[t].name, ret[t])

\* C8 witness: a wrapper with a result word has returned the trap's
\* translated error, its response variable never written
C8_Witness ==
    \E t \in Threads :
      /\ WrapperReturned(t)
      /\ wr[t].name = "__qcom_scm_pas_auth_and_reset"
      /\ cnt[t].trap = 1
      /\ ret[t] = -EOPNOTSUPP
      /\ wr[t].ret = -EOPNOTSUPP
      /\ ResponseWord(t) # 0

\* the wrappers whose command answers with a result word
C9_ResultWordWrappers ==
    { "__qcom_scm_pas_mss_reset", "__qcom_scm_pas_init_image", "__qcom_scm_pas_mem_setup",
      "__qcom_scm_pas_auth_and_reset", "__qcom_scm_pas_shutdown",
      "__qcom_scm_iommu_set_cp_pool_size" }

\* C9: a wrapper whose command answers with a result word calls
\* qcom_scm_call exactly once, and when that call returned 0 with a non-zero
\* result word in the response, the wrapper does not return 0.
C9_SurfacesResultWord ==
    \A t \in Threads :
      wr[t].stage = 3 /\ wr[t].name \in C9_ResultWordWrappers =>
        /\ wr[t].calls = 1
        /\ (ret[t] = 0 /\ cnt[t].copy = 1 /\ ResponseWord(t) # 0) => wr[t].ret # 0


\* C10 as stated: the version trap is issued at most once process-wide
C10_TrapAtMostOnce == ver_traps <= 1

\* C10 (steps): a call entered after some call has returned v finds the
\* cached value: it returns v at once, takes no lock and issues no trap
C10_CachedStep ==
    \A t \in Threads :
      pc[t] = "idle" /\ args'[t].fn = "version" /\ ver_known \notin {NoVersion, VersionUnset} =>
        /\ pc'[t] = "ret"
        /\ ret'[t] = ver_known
        /\ qcom_scm_lock' = qcom_scm_lock
        /\ ver_traps' = ver_traps
        /\ cnt'[t] = NoCount

\* C10, amended: once a call of qcom_scm_get_version has returned a value
\* other than 0xffffffff, every call entered later returns that value
\* without taking the lock and without trapping; and every version trap is
\* issued under the lock.
C10_VersionCached ==
    /\ [](\A t \in Threads : pc[t] = "v_smc" => qcom_scm_lock = t)
    /\ [](ver_known \notin {NoVersion, VersionUnset} => version = ver_known)
    /\ [][C10_CachedStep]_vars

\* C10 witness: a call returns the cached version without having trapped,
\* after the trap of an earlier call
C10_Witness ==
    \E t \in Threads :
      /\ pc[t] = "ret" /\ args[t].fn = "version" /\ cnt[t] = NoCount
      /\ ret[t] = 65538 /\ ver_traps >= 1

\* thread t runs __qcom_scm_set_warm_boot_addr with a mask of supported cpus
WarmRunning(w) ==
    w.name = "__qcom_scm_set_warm_boot_addr" /\ w.x[2] \subseteq DOMAIN qcom_scm_wb

\* the cpus of the mask whose recorded entry differs from entry
Differing(entry, cpus) == { c \in cpus : qcom_scm_wb[c].entry # entry }

\* f is the OR of the warm-boot flags of exactly the cpus in d
IsFlagsOf(f, d) ==
    /\ f \in 0..(QCOM_SCM_FLAG_WARMBOOT_CPU0 + QCOM_SCM_FLAG_WARMBOOT_CPU1
                 + QCOM_SCM_FLAG_WARMBOOT_CPU2 + QCOM_SCM_FLAG_WARMBOOT_CPU3)
    /\ \A c \in DOMAIN qcom_scm_wb : (BitAnd(f, qcom_scm_wb_init[c].flag) # 0) <=> c \in d

\* C11 (entry step): the wrapper goes to qcom_scm_call exactly when some cpu
\* of the mask has another entry recorded, sending the flags of those cpus
\* and the physical address of entry; otherwise it returns 0 with no call
C11_EnterStep ==
    \A t \in Threads :
      wr[t].name = "none" /\ WarmRunning(wr'[t]) =>
        LET e == wr'[t].x[1]
            d == Differing(e, wr'[t].x[2])
        IN IF d = {}
           THEN /\ wr'[t].stage = 3 /\ wr'[t].ret = 0 /\ wr'[t].calls = 0
                /\ pc'[t] = "ret" /\ cnt'[t] = NoCount
           ELSE /\ wr'[t].stage = 1 /\ wr'[t].calls = 1 /\ pc'[t] = "call"
                /\ args'[t].svc = qcom_scm_h.QCOM_SCM_SVC_BOOT
                /\ args'[t].cmd = qcom_scm_h.QCOM_SCM_BOOT_ADDR
                /\ IsFlagsOf(le32_to_cpu(SubSeq(args'[t].cmd_buf, 1, 4)), d)
                /\ le32_to_cpu(SubSeq(args'[t].cmd_buf, 5, 8)) = virt_to_phys(e)

\* C11 (return step): when the call returned 0 the entry is recorded for
\* every cpu of the mask and for no other; when it failed the registry is
\* as it was; the wrapper returns what the call returned
C11_ExitStep ==
    \A t \in Threads :
      WarmRunning(wr[t]) /\ wr[t].stage = 1 /\ wr'[t].stage = 3 =>
        /\ wr'[t].ret = ret[t]
        /\ wr'[t].calls = 1
        /\ IF ret[t] = 0
           THEN \A c \in DOMAIN qcom_scm_wb :
                  qcom_scm_wb'[c].entry =
                    IF c \in wr[t].x[2] THEN wr[t].x[1] ELSE qcom_scm_wb[c].entry
           ELSE qcom_scm_wb' = qcom_scm_wb

\* C11 (every other step): nothing else writes the registry
C11_OnlyOnSuccess ==
    qcom_scm_wb' # qcom_scm_wb =>
      \E t \in Threads :
        /\ wr[t].name = "__qcom_scm_set_warm_boot_addr"
        /\ wr[t].stage = 1 /\ wr'[t].stage = 3 /\ ret[t] = 0

AllExact(m) == \A i \in DOMAIN m.parents : m.parents[i].exact

\* the rate divider d yields for request r on a parent that rounds exactly:
\* the parent is asked for r * d / 2 and runs at it, the clock at twice that
\* over d
Achievable(r, d) == ((((r * d) \div 2) * 2) \div d)

\* the rates of the dividers 1 .. max_div - 1 for request r
AchievableRates(m, r) == { Achievable(r, d) : d \in 1..(Pow2(m.hid_width) - 2) }

\* the clock's configuration register holds what the last operation wrote
SetOps == {"set_rate", "set_rate_and_parent"}

\* C12: with parents that round exactly, mux_div_determine_rate succeeds
\* with a rate >= R whenever a pair it examined yields such a rate (it
\* examines divider 1 of each parent, the loop leaving a parent as soon as
\* its rate is not above R), returns a rate below R only when no divider
\* in 1 .. max_div - 1 yields a rate >= R, that rate being the largest one
\* below R, and returns -EINVAL exactly when no candidate had a rate other
\* than 0.
C12_DetermineRate ==
    clk_op.op = "determine_rate" /\ AllExact(md) =>
      LET R == clk_op.req
          all == AchievableRates(md, R)
      IN /\ Achievable(R, 1) >= R => clk_op.ret = 0 /\ clk_op.rate >= R
         /\ clk_op.ret = 0 /\ clk_op.rate < R =>
              /\ ~ \E a \in all : a >= R
              /\ clk_op.rate \in all
              /\ \A a \in all : a <= clk_op.rate
         /\ clk_op.ret = -EINVAL <=> Achievable(R, 1) = 0

\* the user of the winner of a clock's last successful rate change
RateSet(c) == c.pc = "idle" /\ c.op \in SetOps /\ c.ret = 0 /\ c.i # NoParent

\* the dirty bit of the command register is off
Clean(r) == r.cmd \in {0, CMD_RCGR_UPDATE}

\* C13 (state): after a rate change that succeeded with the winner at
\* parent i and search divider div, the read-back functions, the dirty bit
\* being off, yield source parent_map[i].cfg, divider field div - 1, parent
\* index i and the rate parent_rate * 2 / (div_hw + 1)
C13_Readback ==
    RateSet(clk_op) /\ Clean(regmap) =>
      \A stack \in Stacks(md) :
        /\ __mux_div_get_src_div(md, regmap, stack) =
             [src |-> md.parent_map[clk_op.i + 1], div |-> clk_op.div - 1]
        /\ mux_div_get_parent(md, regmap, stack) = clk_op.i
        /\ mux_div_recalc_rate(md, regmap, stack) =
             (md.parents[clk_op.i + 1].rate * 2) \div ((clk_op.div - 1) + 1)

\* C13 (step): mux_div_recalc_rate and mux_div_get_parent called next return
\* just that
C13_ReadbackStep ==
    RateSet(clk_op) /\ Clean(regmap) /\ clk_op' # clk_op =>
      /\ clk_op'.op = "recalc_rate" =>
           clk_op'.rate = (md.parents[clk_op.i + 1].rate * 2) \div clk_op.div
      /\ clk_op'.op = "get_parent" => clk_op'.parent = clk_op.i

\* C13: round trip of __mux_div_set_rate_and_parent and the read-back path
C13_RoundTrip == [](C13_Readback) /\ [][C13_ReadbackStep]_vars

\* C13 witness: the second parent won at search divider 2, and
\* mux_div_recalc_rate returned its rate
C13_Witness ==
    /\ clk_op.op = "recalc_rate"
    /\ Clean(regmap)
    /\ Len(md.parents) = 2
    /\ md.src_sel = md.parent_map[2] /\ md.div = 1
    /\ regmap.cfg = md.parent_map[2] * 256 + 1
    /\ clk_op.rate = md.parents[2].rate

\* C14: asked for 19 200 000 Hz on a single parent that rounds exactly, the
\* search picks divider 1 (field 0) and the rate is 19 200 000 exactly; the
\* parent is asked for, and reported at, 9 600 000, which is rate * div / 2
C14_Scenario ==
    clk_op.req = XoRate /\ Len(md.parents) = 1 /\ AllExact(md) /\ clk_op.pc = "idle" =>
      /\ clk_op.op = "determine_rate" =>
           /\ clk_op.ret = 0 /\ clk_op.rate = 19200000 /\ clk_op.parent = 0
           /\ clk_op.best_parent_rate = 9600000
      /\ clk_op.op = "set_rate" =>
           /\ clk_op.i = 0 /\ clk_op.div = 1 /\ clk_op.best_div = 0
           /\ clk_op.rate = 19200000
           /\ clk_op.asked = 9600000

\* C14 as stated: the parent is asked for 19 200 000
C14_ParentAskedForRate ==
    clk_op.req = XoRate /\ Len(md.parents) = 1 /\ AllExact(md) /\ clk_op.pc = "idle" =>
      /\ clk_op.op = "determine_rate" =>
           /\ clk_op.ret = 0 /\ clk_op.rate = 19200000 /\ clk_op.parent = 0
           /\ clk_op.best_parent_rate = 19200000
      /\ clk_op.op = "set_rate" =>
           /\ clk_op.i = 0 /\ clk_op.div = 1 /\ clk_op.best_div = 0
           /\ clk_op.rate = 19200000
           /\ clk_op.asked = 19200000

\* C14 witness: the rate change to 19 200 000 Hz returned 0 and stored
\* divider field 0
C14_Witness ==
    /\ clk_op.pc = "idle" /\ clk_op.op = "set_rate" /\ clk_op.ret = 0
    /\ clk_op.req = XoRate
    /\ Len(md.parents) = 1 /\ AllExact(md)
    /\ md.div = 0
    /\ SrcDivFields(md, regmap.cfg).div = 0

\* the update bit of the command register is on
Pending(r) == r.cmd \in {CMD_RCGR_UPDATE, CMD_RCGR_UPDATE + CMD_RCGR_DIRTY_CFG}

\* C15 (commit): the operation enters the loop with 500 polls to go and the
\* update bit written
C15_CommitStep ==
    clk_op.pc = "idle" /\ clk_op'.pc = "poll" => clk_op'.count = 500 /\ Pending(regmap')

\* C15 (poll): a poll writes no register; it returns -EBUSY only as the
\* 500th poll with the bit on, and then the bit stays on and md is as it
\* was; it goes on polling only with the bit on; with the bit off it
\* returns at once, and it returns 0 only with the bit off
C15_PollStep ==
    clk_op.pc = "poll" /\ clk_op' # clk_op =>
      /\ regmap' = regmap
      /\ clk_op'.op = clk_op.op
      /\ clk_op'.pc = "idle" /\ clk_op'.ret = -EBUSY =>
           Pending(regmap) /\ clk_op.count = 1 /\ Pending(regmap') /\ md' = md
      /\ clk_op'.pc = "poll" =>
           Pending(regmap) /\ clk_op.count > 1 /\ clk_op'.count = clk_op.count - 1
      /\ ~Pending(regmap) => clk_op'.pc = "idle" /\ clk_op'.ret \in {0, -EIO}
      /\ clk_op'.pc = "idle" /\ clk_op'.ret = 0 => ~Pending(regmap)

\* C15 (driver): no step of the driver turns the update bit off
C15_NeverCleared == clk_op' # clk_op /\ Pending(regmap) => Pending(regmap')

\* C15: __mux_div_update_config returns -EBUSY after exactly 500 polls that
\* read the update bit on, leaving the bit on, and enable, set_parent,
\* set_rate and set_rate_and_parent return that value; a poll that reads the
\* bit off returns 0
C15_UpdateTimeout ==
    /\ [][C15_CommitStep]_vars
    /\ [][C15_PollStep]_vars
    /\ [][C15_NeverCleared]_vars
    /\ [](clk_op.pc = "poll" => clk_op.count \in 1..500 /\ clk_op.op \in SetOps \cup {"enable", "set_parent"})

\* C15 witness: mux_div_set_parent returned -EBUSY and the update bit is on
C15_Witness ==
    /\ clk_op.pc = "idle" /\ clk_op.op = "set_parent" /\ clk_op.ret = -EBUSY
    /\ Pending(regmap)

\* C16 (step): mux_div_recalc_rate returns 0 when the dirty bit is on, 0
\* when the source field is no parent's, and parent_rate * 2 / (div + 1)
\* otherwise
C16_RecalcStep ==
    clk_op'.op = "recalc_rate" /\ clk_op' # clk_op =>
      LET f == SrcDivFields(md, regmap.cfg)
      IN IF ~Clean(regmap) THEN clk_op'.rate = 0
         ELSE IF \A i \in DOMAIN md.parent_map : md.parent_map[i] # f.src
              THEN clk_op'.rate = 0
              ELSE \E i \in DOMAIN md.parent_map :
                     /\ md.parent_map[i] = f.src
                     /\ clk_op'.rate = (md.parents[i].rate * 2) \div (f.div + 1)

\* C16: what mux_div_recalc_rate returns
C16_RecalcRate == [][C16_RecalcStep]_vars

\* thread t holds the command alloc_qcom_scm_command returned for the sizes
\* in args[t]
AllocReturned(t) == args[t].fn = "alloc_qcom_scm_command" /\ cmd[t] # NULL

\* the sum of the two headers and the two payloads
HeadersAndPayloads(a) == 16 + 12 + a.cmd_len + a.resp_len

\* the block is a whole number of pages, holds headers and payloads, and
\* reads as zero but for the three header fields
BlockOf(b, a) ==
    /\ b.size % 4096 = 0
    /\ b.size >= HeadersAndPayloads(a)
    /\ b.size - HeadersAndPayloads(a) < 4096
    /\ \A o \in DOMAIN b.data : o >= 12 => CpuByte(b, o) = 0

\* C17: alloc_qcom_scm_command returns a zeroed block of whole pages that
\* holds both headers and both payloads; the len field of the command header
\* holds exactly the sum of the headers and the payloads, which is at
\* least that sum but no multiple of the page size in general
C17_AllocatedBlock ==
    \A t \in Threads :
      AllocReturned(t) =>
        /\ BlockOf(BufAt(cmd[t]), args[t])
        /\ CpuReadLE32(BufAt(cmd[t]), 0) = HeadersAndPayloads(args[t])

\* C17 as stated: the len field is page-aligned as well
C17_LenPageAligned ==
    \A t \in Threads :
      AllocReturned(t) =>
        /\ BlockOf(BufAt(cmd[t]), args[t])
        /\ CpuReadLE32(BufAt(cmd[t]), 0) >= HeadersAndPayloads(args[t])
        /\ CpuReadLE32(BufAt(cmd[t]), 0) % 4096 = 0

\* C17 witness: headers and payloads of 4097 bytes in a block of two pages
C17_Witness ==
    \E t \in Threads :
      /\ AllocReturned(t)
      /\ HeadersAndPayloads(args[t]) = 4097
      /\ BufAt(cmd[t]).size = 8192
      /\ args[t].resp_len > 0

\* the offsets the allocator stores, and the regions they delimit: command
\* payload, response header and response payload follow the command header
\* in this order, without overlap, inside the length of the len field
LayoutOf(b, a) ==
    LET len == CpuReadLE32(b, 0)
        buf_offset == CpuReadLE32(b, 4)
        resp_hdr_offset == CpuReadLE32(b, 8)
    IN /\ buf_offset = 16
       /\ resp_hdr_offset = buf_offset + a.cmd_len
       /\ resp_hdr_offset + 12 + a.resp_len = len
       /\ len <= b.size
       /\ qcom_scm_command_to_response(b) = resp_hdr_offset

\* C18: in a buffer alloc_qcom_scm_command returned, buf_offset is the size
\* of the command header and resp_hdr_offset = buf_offset + cmd_size, so
\* that command payload, response header and a response payload placed right
\* after the response header do not overlap and lie inside the length; the
\* response header itself is left zeroed, its buf_offset being 0 until the
\* monitor writes the response
C18_Layout ==
    \A t \in Threads :
      AllocReturned(t) =>
        LET b == BufAt(cmd[t])
        IN /\ LayoutOf(b, args[t])
           /\ CpuRead(b, qcom_scm_command_to_response(b), 12) = [i \in 1..12 |-> 0]
           /\ qcom_scm_get_response_buffer(b, qcom_scm_command_to_response(b)) =
                qcom_scm_command_to_response(b)

\* C18 as stated: the response header's buf_offset holds the size of the
\* response header in every buffer the allocator returns
C18_ResponseOffsetSet ==
    \A t \in Threads :
      AllocReturned(t) =>
        LET b == BufAt(cmd[t])
        IN /\ LayoutOf(b, args[t])
           /\ CpuReadLE32(b, qcom_scm_command_to_response(b) + 4) = 12

\* C18 witness: a command with both payloads present
C18_Witness ==
    \E t \in Threads :
      /\ AllocReturned(t)
      /\ args[t].cmd_len = 3 /\ args[t].resp_len = 5
      /\ CpuReadLE32(BufAt(cmd[t]), 8) = 19

\* the cache lines of [start, end) of t's command are not in the cache
\* after the step
LinesDropped(t, start, end) ==
    LinesOf(start, end) \cap heap'[SlotOfVirt(cmd[t])].valid = {}

\* C19 (step): the steps of qcom_scm_call follow one another in the order
\* flush, trap, unlock, look at the result; the header is invalidated only
\* after a trap that returned 0 or after a read of is_complete that found
\* 0; is_complete is read only right after an invalidation of the response
\* header; the full range is invalidated only after a read that found
\* is_complete set; the copy comes only right after that invalidation of
\* header and payload; during the call resp_buf is written by the copy alone
C19_OrderStep ==
    \A t \in Threads :
      /\ pc'[t] # pc[t] =>
           /\ pc'[t] = "smc" => pc[t] = "flush"
           /\ pc'[t] = "unlock" => pc[t] = "smc"
           /\ pc'[t] = "check" => pc[t] = "unlock"
           /\ pc'[t] = "inv_hdr" =>
                \/ pc[t] = "check" /\ ret[t] = 0
                \/ pc[t] = "poll" /\ IsComplete(BufAt(cmd[t]), rsp[t]) = 0
           /\ pc'[t] = "poll" =>
                pc[t] = "inv_hdr" /\ LinesDropped(t, rsp[t], rsp[t] + 12)
           /\ pc'[t] = "inv_full" =>
                pc[t] = "poll" /\ IsComplete(BufAt(cmd[t]), rsp[t]) # 0
           /\ pc'[t] = "copy" =>
                /\ pc[t] = "inv_full"
                /\ LinesDropped(t, rsp[t], rsp[t] + 12 + args[t].resp_len)
      /\ resp_buf'[t] # resp_buf[t] /\ pc[t] \notin {"idle", "ret"} =>
           /\ pc[t] = "copy" /\ pc'[t] = "out"
           /\ resp_buf'[t] = CpuRead(BufAt(cmd[t]), rsp[t] + 12, args[t].resp_len)

\* C19 (state): what a call has behind it at each place
C19_Behind ==
    \A t \in Threads :
      /\ pc[t] \in {"smc", "unlock", "check"} => cnt[t].flush = 1
      /\ pc[t] \in {"unlock", "check", "inv_hdr", "poll", "inv_full", "copy"} =>
           cnt[t].flush = 1 /\ cnt[t].trap = 1
      /\ pc[t] \in {"inv_full", "copy"} => cnt[t].inv = 1 /\ cnt[t].poll = 1
      /\ cnt[t].copy > 0 => cnt[t].poll = 1 /\ cnt[t].inv = 1 /\ cnt[t].trap = 1 /\ ret[t] = 0

\* C19: the order of flush, trap, invalidations, reads of is_complete and
\* copy in every qcom_scm_call
C19_Order == [][C19_OrderStep]_vars /\ [](C19_Behind)

\* C19 witness: a call has copied the monitor's word out and is about to
\* free its command
C19_Witness ==
    \E t \in Threads :
      /\ pc[t] = "out" /\ ret[t] = 0
      /\ args[t].has_resp
      /\ cnt[t].copy = 1 /\ cnt[t].poll = 1 /\ cnt[t].inv = 1
      /\ resp_buf[t] = << 1, 0, 0, 0 >>

\* where a thread does not hold the mutex
Unlocked == {"idle", "call", "lock", "check", "inv_hdr", "poll", "inv_full", "copy",
             "out", "ret"}

\* C20 (step): the mutex is released by the step that follows the trap
\* loop, before the result is looked at, whatever the trap returned
C20_ReleaseStep ==
    \A t \in Threads :
      pc[t] = "unlock" /\ pc'[t] # "unlock" =>
        /\ qcom_scm_lock = t /\ qcom_scm_lock' = 0
        /\ pc'[t] = "check"
        /\ ret'[t] = ret[t]

\* C20: a thread holds qcom_scm_lock in the flush and trap section only:
\* not when it looks at the result, polls, copies or has returned; while a
\* call polls, a thread waiting for the mutex is kept out by a third thread
\* at most
C20_LockScope ==
    /\ [](\A t \in Threads : pc[t] \in Unlocked => qcom_scm_lock # t)
    /\ [](\A t \in Threads : qcom_scm_lock = t => pc[t] \in {"flush", "smc", "unlock", "v_smc", "v_unlock"})
    /\ [](\A t \in Threads : \A u \in Threads \ {t} :
            pc[t] \in {"inv_hdr", "poll"} /\ pc[u] = "lock" /\ qcom_scm_lock # 0 =>
              qcom_scm_lock \in Threads \ {t, u})
    /\ [][C20_ReleaseStep]_vars

\* C20 witness: one call polls for a response the monitor has not written
\* while another thread holds the mutex and has trapped
C20_Witness ==
    \E t \in Threads : \E u \in Threads \ {t} :
      /\ pc[t] = "poll" /\ r2[t] \in fw_pending
      /\ IsComplete(BufAt(cmd[t]), rsp[t]) = 0
      /\ pc[u] = "unlock" /\ qcom_scm_lock = u /\ args[u].fn = "call"

\* thread t runs qcom_scm_call itself
InCall(t) == args[t].fn = "call"

\* C21 (step): the allocation of a call takes an object no call holds
C21_AllocStep ==
    \A t \in Threads :
      InCall(t) /\ pc[t] = "call" /\ pc'[t] = "lock" =>
        /\ cnt[t].alloc = 0 /\ cnt'[t].alloc = 1
        /\ BufAt(cmd'[t]) = NoBuf
        /\ SlotOfVirt(cmd'[t]) # 0
        /\ heap'[SlotOfVirt(cmd'[t])] # NoBuf /\ heap'[SlotOfVirt(cmd'[t])].owner = t
        /\ \A u \in Threads \ {t} : HasCommand(u) => cmd[u] # cmd'[t]
        /\ \A s \in Slots : s # SlotOfVirt(cmd'[t]) => heap'[s] = heap[s]

\* C21 (step): a failed allocation returns -ENOMEM and touches neither the
\* heap nor the mutex nor the monitor
C21_NoMemStep ==
    \A t \in Threads :
      InCall(t) /\ pc[t] = "call" /\ pc'[t] = "ret" =>
        /\ ret'[t] = -ENOMEM
        /\ UNCHANGED << heap, qcom_scm_lock, fw_pending, cnt, cmd >>

\* C21 (step): the buffer is freed by the last step of the call, once, while
\* it is still the caller's own, and the call is over once it is freed
C21_FreeStep ==
    \A t \in Threads :
      InCall(t) /\ pc[t] # "ret" /\ cnt'[t].free # cnt[t].free =>
        /\ pc[t] = "out" /\ pc'[t] = "ret"
        /\ cnt[t].free = 0 /\ cnt'[t].free = 1
        /\ BufAt(cmd[t]).owner = t
        /\ BufAt(cmd[t])' = NoBuf
        /\ ret'[t] = ret[t]

\* C21 (step): a call that has returned does not touch the heap again
C21_ReturnedStep ==
    \A t \in Threads :
      InCall(t) /\ pc[t] = "ret" /\ pc'[t] # "ret" => heap' = heap

\* C21: every qcom_scm_call allocates a buffer that no other call holds and
\* frees it exactly once, by its last step, on the path of a failed trap and
\* on that of a completed response alike; the monitor owes no response to a
\* freed buffer; a call whose allocation failed returns -ENOMEM without
\* having locked, trapped or freed
C21_BufferLifecycle ==
    /\ [](\A t \in Threads : InCall(t) /\ pc[t] = "ret" /\ cnt[t].alloc = 1 =>
            /\ cnt[t].free = 1
            /\ BufAt(cmd[t]).owner # t
            /\ ret[t] = 0 => cnt[t].poll >= 1)
    /\ [](\A t \in Threads : InCall(t) /\ pc[t] = "ret" /\ cnt[t].alloc = 0 =>
            /\ ret[t] = -ENOMEM
            /\ cnt[t].lock = 0 /\ cnt[t].trap = 0 /\ cnt[t].free = 0
            /\ cmd[t] = NULL)
    /\ [](\A t \in Threads : InCall(t) /\ HasCommand(t) =>
            cnt[t].alloc = 1 /\ cnt[t].free = 0 /\ BufAt(cmd[t]).owner = t)
    /\ [](\A p \in fw_pending : SlotOfPhys(p) # 0 /\ heap[SlotOfPhys(p)] # NoBuf)
    /\ [](\A s \in Slots : heap[s] # NoBuf =>
            HasCommand(heap[s].owner) /\ cmd[heap[s].owner] = SlotAddr(s))
    /\ [][C21_AllocStep]_vars
    /\ [][C21_NoMemStep]_vars
    /\ [][C21_FreeStep]_vars
    /\ [][C21_ReturnedStep]_vars

\* C21 witness: one call has returned a failed trap's error with its buffer
\* freed, and the other call has taken the object that was freed
C21_Witness ==
    \E t \in Threads : \E u \in Threads \ {t} :
      /\ InCall(t) /\ pc[t] = "ret" /\ ret[t] # 0 /\ cnt[t].trap >= 1 /\ cnt[t].free = 1
      /\ InCall(u) /\ HasCommand(u) /\ cmd[u] = cmd[t]

\* C22 (state): the search of a rate change, against that of
\* mux_div_determine_rate for the same rate on the same parents
C22_Search ==
    clk_op.op \in SetOps =>
      LET d == mux_div_determine_rate(md, clk_op.req)
      IN /\ clk_op.i = d.best_parent_hw
         /\ clk_op.div = d.div
         /\ clk_op.rate = (IF d.ret = 0 THEN d.rate ELSE 0)
         /\ d.ret = 0 =>
              /\ d.best_parent_hw \in 0..(Len(md.parent_map) - 1)
              /\ clk_op.best_src = md.parent_map[d.best_parent_hw + 1]
              /\ clk_op.best_div = d.div - 1
              /\ d.rate = mult_frac(d.best_parent_rate, 2, d.div)
         /\ d.ret # 0 =>
              /\ d.best_parent_hw = NoParent
              /\ clk_op.best_src = 0 /\ clk_op.best_div = 0

\* C22 (state): once the configuration register is written, it holds the
\* winner's source and divider field
C22_Programmed ==
    clk_op.op \in SetOps /\ clk_op.pc = "poll" =>
      SrcDivFields(md, regmap.cfg) = [src |-> clk_op.best_src, div |-> clk_op.best_div]

\* C22: __mux_div_set_rate_and_parent selects the winner that
\* mux_div_determine_rate selects for the same rate and parents: the same
\* parent, at the same search divider, with the same rate; it programs that
\* parent's cfg and that divider less one, whatever source or parent index
\* its caller passed; where mux_div_determine_rate finds no parent and
\* returns -EINVAL, the rate change has no winner either and programs
\* source 0 and divider field 0
C22_SameWinner == C22_Search /\ C22_Programmed

\* C22 witness: mux_div_set_rate_and_parent, called with the index of the
\* first parent, has programmed the second one, the winner
C22_Witness ==
    /\ clk_op.op = "set_rate_and_parent" /\ clk_op.pc = "poll"
    /\ Len(md.parent_map) = 2
    /\ clk_op.src_sel = md.parent_map[1]
    /\ clk_op.i = 1 /\ clk_op.best_src = md.parent_map[2]
    /\ mux_div_determine_rate(md, clk_op.req).best_parent_hw = 1
    /\ SrcDivFields(md, regmap.cfg).src = md.parent_map[2]

\* the source and divider fields of the configuration register are those
\* cached in md
Coherent == SrcDivFields(md, regmap.cfg) = [src |-> md.src_sel, div |-> md.div]

\* the pair mux_div_disable hands to __mux_div_set_src_div, as the register
\* fields hold it
SafePair(m) ==
    SrcDivFields(m, SrcDivVal(m, m.safe_src,
        2 * divider_get_val(m.safe_freq,
                            clk_hw_get_rate(m.parents[mux_div_get_safe_parent(m) + 1]),
                            m.hid_width) + 1))

\* C23 (step): the first step of mux_div_disable
C23_DisableStep ==
    clk_op.pc = "idle" /\ clk_op'.op = "disable" /\ clk_op' # clk_op =>
      /\ md' = md
      /\ SafeUnset(md) => regmap' = regmap /\ clk_op'.pc = "idle"
      /\ ~SafeUnset(md) =>
           \/ regmap' = regmap /\ clk_op'.pc = "idle" /\ clk_op'.ret # 0
           \/ /\ SrcDivFields(md, regmap'.cfg) = SafePair(md)
              /\ SrcDivFields(md, regmap'.cfg).src = md.safe_src
              /\ BitAnd(regmap'.cfg, -1 - SrcDivMask(md)) = BitAnd(regmap.cfg, -1 - SrcDivMask(md))
              /\ \/ /\ clk_op'.pc = "idle" /\ clk_op'.ret # 0
                    /\ regmap'.cmd = regmap.cmd
                 \/ /\ clk_op'.pc = "poll" /\ clk_op'.count = PollCount
                    /\ regmap'.cmd = BitOr(regmap.cmd, CMD_RCGR_UPDATE)

\* C23 (step): the polls of mux_div_disable are those of a rate change:
\* one read of the command register each, at most PollCount of them, ended
\* by the update bit found off, by a failed read or by the count running out
C23_PollStep ==
    clk_op.op = "disable" /\ clk_op.pc = "poll" /\ clk_op' # clk_op =>
      /\ md' = md /\ regmap' = regmap
      /\ clk_op'.op = "disable"
      /\ \E rr \in RegmapRets :
           LET p == PollStep(regmap.cmd, rr, clk_op.count)
           IN IF p.done
              THEN clk_op'.pc = "idle" /\ clk_op'.ret = p.ret
              ELSE clk_op'.pc = "poll" /\ clk_op'.count = p.count

\* C23 (step): the enable that follows a disable writes the cached pair
C23_EnableStep ==
    clk_op.op = "disable" /\ clk_op.pc = "idle" /\ clk_op'.op = "enable" =>
      /\ md' = md
      /\ regmap' # regmap \/ clk_op'.pc = "poll" =>
           SrcDivFields(md, regmap'.cfg) = [src |-> md.src_sel, div |-> md.div]

Indexed(t, name) == IF wr[t].name = name THEN wr[t].idx ELSE {}

\* C24: __qcom_scm_set_warm_boot_addr reads and writes qcom_scm_wb[cpu] for
\* cpus inside the four-entry array only, as __qcom_scm_set_cold_boot_addr
\* does with scm_cb_flags[cpu]; nothing behind the array is written
C24_RegistryIndex ==
    /\ \A t \in Threads :
         Indexed(t, "__qcom_scm_set_warm_boot_addr") \subseteq DOMAIN qcom_scm_wb
    /\ \A t \in Threads :
         Indexed(t, "__qcom_scm_set_cold_boot_addr") \subseteq DOMAIN scm_cb_flags
    /\ qcom_scm_lock # Clobbered

\* the part of C24 that is about __qcom_scm_set_cold_boot_addr
C24_ColdBootIndex ==
    \A t \in Threads :
      Indexed(t, "__qcom_scm_set_cold_boot_addr") \subseteq DOMAIN scm_cb_flags

\* the operations that program a source and a divider
ProgramOps == {"enable", "set_parent", "set_rate", "set_rate_and_parent"}

\* C25 (state): right after one of these operations returned 0, the cached
\* pair is the pair in the configuration register
C25_CachedIsProgrammed ==
    clk_op.op \in ProgramOps /\ clk_op.pc = "idle" /\ clk_op.ret = 0 => Coherent

\* C25 (step): an operation that returns an error leaves the cached pair
C25_ErrorStep ==
    clk_op'.op \in ProgramOps /\ clk_op'.pc = "idle" /\ clk_op'.ret # 0 /\ clk_op' # clk_op
      => md' = md

\* C25 (step): the enable that follows a set_parent that returned 0 leaves
\* the source field of the register at the parent set
C25_EnableStep ==
    /\ clk_op.op = "set_parent" /\ clk_op.pc = "idle" /\ clk_op.ret = 0
    /\ clk_op'.op = "enable"
    => SrcDivFields(md, regmap'.cfg).src = SrcDivFields(md, regmap.cfg).src

\* C25: after enable, set_parent, set_rate and set_rate_and_parent the
\* cached (md->src_sel, md->div) is the pair the configuration register
\* holds whenever the operation returned 0, and is unchanged by an operation
\* that returned an error; an enable after a set_parent that returned 0
\* leaves the register's source at the parent set
C25_CacheCoherent ==
    /\ [](C25_CachedIsProgrammed)
    /\ [][C25_ErrorStep]_vars
    /\ [][C25_EnableStep]_vars

\* the part of C25 that is about operations that fail
C25_ErrorKeepsCache == [][C25_ErrorStep]_vars

\* the part of C25 that is about operations other than set_parent
C25_OthersCoherent ==
    clk_op.op \in ProgramOps \ {"set_parent"} /\ clk_op.pc = "idle" /\ clk_op.ret = 0
      => Coherent

=============================================================================
